---- MODULE Spec2Model ----
(***************************************************************************)
(* Model of the smailnail search-criteria compiler (BuildSearchCriteria    *)
(* and its helpers), of the message retrieval pipeline                     *)
(* (Rule.FetchMessages), of SearchConfig.Validate, of ExecuteActions, of   *)
(* OutputConfig.UnmarshalYAML and of MailGenerator.Generate.               *)
(*                                                                         *)
(* Conventions.  A Go string is a TLA+ string when the code only compares  *)
(* or copies it, and a sequence of one-character strings when the code     *)
(* looks inside it (flag names, size strings).  A Go pointer is a record   *)
(* whose field "nil"/"set" says whether the pointer is nil.  Dates are     *)
(* day numbers (the code only ever builds start-of-day instants); the zero *)
(* time.Time is 0.                                                         *)
(***************************************************************************)
EXTENDS Integers, Sequences, FiniteSets, TLC

VARIABLES
    config,        \* the SearchConfig handed to BuildSearchCriteria (rule.Search)
    outputConfig,  \* the *OutputConfig handed to BuildSearchCriteria (&rule.Output)
    criteria,      \* returned *imap.SearchCriteria
    options,       \* returned *imap.SearchOptions
    err,           \* returned error ("" is nil)
    pc,            \* position of the caller of BuildSearchCriteria
    fpc,           \* position inside Rule.FetchMessages
    mailboxSize,   \* number of messages in the selected mailbox
    searchData,    \* the server's answer to the search command
    seqNums,       \* FetchMessages: local seqNums
    totalFound,    \* FetchMessages: local totalFound
    seqSet,        \* FetchMessages: the sequence set of the structure fetch
    commands,      \* session commands issued so far, in order
    result,        \* FetchMessages: local result, the returned message list
    fetchErr,      \* FetchMessages: returned error ("" is nil)
    variant,       \* which FetchMessages runs: the batching one or the per-message one
    required,      \* the MimePartMetadata of each message of the structure response
    msgIdx,        \* per-message FetchMessages: 1-based index of the message in work
    response,      \* the body section fragments received from content fetches
    validated,     \* whether SearchConfig.Validate has been called on config
    validateErr,   \* the error Validate returned ("" is nil)
    mailbox,       \* the selected mailbox on the server: its messages by sequence number
    folders,       \* the other mailboxes on the server: the messages copied or moved there
    messages,      \* ExecuteActions: the messages argument (the fetch result)
    actions,       \* ExecuteActions: the actions argument (*ActionConfig)
    apc,           \* position inside ExecuteActions
    issued,        \* commands ExecuteActions has sent, in order
    actErr,        \* ExecuteActions: returned error ("" is nil)
    exported,      \* files written by executeExport
    exportIdx,     \* executeExport: 1-based index of the message in work
    document,      \* the YAML mapping under "output" handed to OutputConfig.UnmarshalYAML
    output,        \* the OutputConfig the mapping is decoded into (receiver o)
    unmarshalErr,  \* UnmarshalYAML: returned error ("" is nil)
    upc,           \* position of the caller of UnmarshalYAML
    templateConfig,\* MailGenerator.config (*types.TemplateConfig)
    emails,        \* Generate: local emails, the returned list
    genErr,        \* Generate: returned error ("" is nil)
    gpc,           \* position inside Generate
    genEntry,      \* Generate: 1-based index of the generate entry in work
    genIndex       \* Generate: loop variable i of the entry in work

compileVars == <<config, outputConfig, criteria, options, err, pc>>
fetchVars == <<fpc, mailboxSize, searchData, seqNums, totalFound, seqSet, commands, result, fetchErr>>
contentVars == <<variant, required, msgIdx, response>>
validateVars == <<validated, validateErr>>
\* the state of the operations that follow the compiler and the retrieval
actionVars == <<mailbox, folders, messages, actions, apc, issued, actErr, exported, exportIdx>>
unmarshalVars == <<document, output, unmarshalErr, upc>>
generateVars == <<templateConfig, emails, genErr, gpc, genEntry, genIndex>>
laterVars == <<validateVars, actionVars, unmarshalVars, generateVars>>
vars == <<config, outputConfig, criteria, options, err, pc,
          fpc, mailboxSize, searchData, seqNums, totalFound, seqSet, commands, result, fetchErr,
          variant, required, msgIdx, response,
          validated, validateErr,
          mailbox, folders, messages, actions, apc, issued, actErr, exported, exportIdx,
          document, output, unmarshalErr, upc,
          templateConfig, emails, genErr, gpc, genEntry, genIndex>>

----
\* Bounds of the model.

\* largest number of children of a combinator over leaves
MaxConditions == 3
\* largest number of children of a combinator whose children may be combinators
MaxNested == 2
\* width in bits of the modelled unsigned UID type (uint32 in the code)
UIDBits == 3
\* largest mailbox / largest number of search matches
MaxMailbox == 5
\* largest limit and offset of the output config
MaxLimit == 3
MaxOffset == 6

----
\* Generic helpers.

Max(a, b) == IF a >= b THEN a ELSE b
Min(a, b) == IF a <= b THEN a ELSE b

RECURSIVE Pow2(_)
Pow2(n) == IF n = 0 THEN 1 ELSE 2 * Pow2(n - 1)

\* sequences over S of length lo..hi
SeqsOf(S, lo, hi) == UNION {[1..n -> S] : n \in lo..hi}

Reverse(s) == [i \in 1..Len(s) |-> s[Len(s) + 1 - i]]

Range(s) == {s[i] : i \in DOMAIN s}

UpperChars == <<"A","B","C","D","E","F","G","H","I","J","K","L","M",
                "N","O","P","Q","R","S","T","U","V","W","X","Y","Z">>
LowerChars == <<"a","b","c","d","e","f","g","h","i","j","k","l","m",
                "n","o","p","q","r","s","t","u","v","w","x","y","z">>

\* strings.ToLower on one character and on a string
ToLowerChar(c) ==
    IF \E i \in 1..26 : UpperChars[i] = c
    THEN LowerChars[CHOOSE i \in 1..26 : UpperChars[i] = c]
    ELSE c
ToLower(s) == [i \in 1..Len(s) |-> ToLowerChar(s[i])]

\* strings.HasPrefix(s, p) for a one-character prefix p
HasPrefix(s, p) == Len(s) >= 1 /\ s[1] = p

----
\* Sizes.  An int64 is kept as its 64 bits, written as seven digits of base
\* 1024, lowest first (the seventh holds bits 60-63, bit 63 is the sign); a
\* natural number is the list of its base-1024 digits, lowest first, without
\* leading zeros.  Multiplying by the unit K, M or G is a shift by 1, 2 or 3
\* digits.
Kilo == 1024
Int64Digits == 7
SignDigit == 8

\* n * m + c for a natural number n and small m, c
RECURSIVE NatMulAdd(_, _, _)
NatMulAdd(n, m, c) ==
    IF n = <<>> THEN (IF c = 0 THEN <<>> ELSE <<c % Kilo>> \o NatMulAdd(n, m, c \div Kilo))
    ELSE LET v == n[1] * m + c
         IN <<v % Kilo>> \o NatMulAdd(Tail(n), m, v \div Kilo)

\* n * 1024^k
NatShift(n, k) == IF n = <<>> THEN <<>> ELSE [i \in 1..k |-> 0] \o n

RECURSIVE NatLess(_, _)
NatLess(a, b) ==
    IF Len(a) # Len(b) THEN Len(a) < Len(b)
    ELSE IF a = <<>> THEN FALSE
    ELSE IF a[Len(a)] # b[Len(b)] THEN a[Len(a)] < b[Len(b)]
    ELSE NatLess(SubSeq(a, 1, Len(a) - 1), SubSeq(b, 1, Len(b) - 1))

\* math.MaxInt64 = 2^63 - 1
MaxInt64 == [i \in 1..Int64Digits |-> IF i = Int64Digits THEN SignDigit - 1 ELSE Kilo - 1]

\* the int64 that holds the low 64 bits of the natural number n
Wrap64(n) ==
    [i \in 1..Int64Digits |->
        IF i > Len(n) THEN 0
        ELSE IF i = Int64Digits THEN n[i] % (2 * SignDigit) ELSE n[i]]
Int64Zero == Wrap64(<<>>)
Int64OfNat(k) == Wrap64(NatMulAdd(<<>>, 1, k))
Int64Negative(x) == x[Int64Digits] >= SignDigit

\* the natural number that an int64 which is not negative holds
NatOfInt64(x) ==
    IF \E i \in 1..Int64Digits : x[i] # 0
    THEN SubSeq(x, 1, CHOOSE i \in 1..Int64Digits :
                         x[i] # 0 /\ \A j \in (i + 1)..Int64Digits : x[j] = 0)
    ELSE <<>>

\* x < y for int64
RECURSIVE DigitsLess(_, _, _)
DigitsLess(x, y, i) ==
    IF i = 0 THEN FALSE
    ELSE IF x[i] # y[i] THEN x[i] < y[i]
    ELSE DigitsLess(x, y, i - 1)
Int64Less(x, y) ==
    IF Int64Negative(x) # Int64Negative(y) THEN Int64Negative(x)
    ELSE DigitsLess(x, y, Int64Digits)

----
\* Operators of the DSL (part_002, lines 15-19).
OperatorAnd == "and"
OperatorOr == "or"
OperatorNot == "not"

\* A SearchConfig with no field set (Go zero value).
ZeroFlags == [set |-> FALSE, Has |-> <<>>, NotHas |-> <<>>]
ZeroSize == [set |-> FALSE, LargerThan |-> <<>>, SmallerThan |-> <<>>]
ZeroHeader == [set |-> FALSE, Name |-> "", Value |-> ""]
ZeroSearchConfig ==
    [Since |-> "", Before |-> "", On |-> "", WithinDays |-> 0,
     From |-> "", To |-> "", Cc |-> "", Bcc |-> "", Subject |-> "",
     SubjectContains |-> "", Header |-> ZeroHeader,
     BodyContains |-> "", Text |-> "",
     Flags |-> ZeroFlags, Size |-> ZeroSize,
     Operator |-> "", Conditions |-> <<>>]

\* A nil *OutputConfig and a non-nil one.
NilOutputConfig == [nil |-> TRUE, Limit |-> 0, Offset |-> 0, AfterUID |-> 0, BeforeUID |-> 0]
OutputConfig(limit, offset, after, before) ==
    [nil |-> FALSE, Limit |-> limit, Offset |-> offset, AfterUID |-> after, BeforeUID |-> before]

\* imap.SearchCriteria: nil pointer and zero value.
ZeroCriteria ==
    [nil |-> FALSE, Since |-> 0, Before |-> 0, Header |-> <<>>, Body |-> <<>>,
     Text |-> <<>>, Flag |-> <<>>, NotFlag |-> <<>>, Larger |-> Int64Zero, Smaller |-> Int64Zero,
     UID |-> <<>>, Not |-> <<>>, Or |-> <<>>]
NilCriteria == [ZeroCriteria EXCEPT !.nil = TRUE]

\* imap.SearchOptions: nil pointer and zero value.
ZeroOptions == [nil |-> FALSE, ReturnAll |-> FALSE, ReturnCount |-> FALSE]
NilOptions == [ZeroOptions EXCEPT !.nil = TRUE]

\* The three results of the compiler functions.
Ret(c, o, e) == [criteria |-> c, options |-> o, err |-> e]
Fail(e) == Ret(NilCriteria, NilOptions, e)

----
\* Dates.  The date strings the model uses and their parse (parseDate tries
\* its layouts in turn; every string but "bad" is in the first layout that fits).
Today == 4
parseDate(dateStr) ==
    CASE dateStr = "2024-01-01" -> [ok |-> TRUE, t |-> 1]
      [] dateStr = "2024-01-02" -> [ok |-> TRUE, t |-> 2]
      [] dateStr = "2024-01-03" -> [ok |-> TRUE, t |-> 3]
      [] dateStr = "2024/01/02" -> [ok |-> TRUE, t |-> 2]
      [] OTHER -> [ok |-> FALSE, t |-> 0]

\* Size strings: ^(\d+)([BKMG])?$, strconv.ParseInt and the unit.
Digits == <<"0","1","2","3","4","5","6","7","8","9">>
IsDigit(c) == \E i \in 1..10 : Digits[i] = c
DigitVal(c) == (CHOOSE i \in 1..10 : Digits[i] = c) - 1

\* the natural number written by a string of decimal digits
RECURSIVE NatOfDigits(_)
NatOfDigits(ds) ==
    IF Len(ds) = 0 THEN <<>>
    ELSE NatMulAdd(NatOfDigits(SubSeq(ds, 1, Len(ds) - 1)), 10, DigitVal(ds[Len(ds)]))

\* strconv.ParseInt(ds, 10, 64) on a string of digits: a value above
\* math.MaxInt64 is a range error
ParseInt(ds) ==
    LET n == NatOfDigits(ds)
    IN IF NatLess(MaxInt64, n) THEN [ok |-> FALSE, val |-> MaxInt64]
       ELSE [ok |-> TRUE, val |-> Wrap64(n)]

\* size *= 1024^k in int64, for a size that is not negative
TimesUnit(size, k) == Wrap64(NatShift(NatOfInt64(size), k))

\* ^(\d+)([BKMG])?$, strconv.ParseInt and the multiplication by the unit
parseSize(sizeStr) ==
    LET n == Len(sizeStr)
        hasUnit == n >= 1 /\ sizeStr[n] \in {"B", "K", "M", "G"}
        digits == IF hasUnit THEN SubSeq(sizeStr, 1, n - 1) ELSE sizeStr
        unit == IF hasUnit THEN sizeStr[n] ELSE ""
        matches == Len(digits) >= 1 /\ \A i \in 1..Len(digits) : IsDigit(digits[i])
        size == ParseInt(digits)
    IN  IF ~matches THEN [ok |-> FALSE, size |-> Int64Zero]
        ELSE IF ~size.ok THEN [ok |-> FALSE, size |-> Int64Zero]
        ELSE CASE unit \in {"B", ""} -> [ok |-> TRUE, size |-> size.val]
               [] unit = "K" -> [ok |-> TRUE, size |-> TimesUnit(size.val, 1)]
               [] unit = "M" -> [ok |-> TRUE, size |-> TimesUnit(size.val, 2)]
               [] unit = "G" -> [ok |-> TRUE, size |-> TimesUnit(size.val, 3)]

\* Flag names.
Str_seen == <<"s","e","e","n">>
Str_answered == <<"a","n","s","w","e","r","e","d">>
Str_flagged == <<"f","l","a","g","g","e","d">>
Str_deleted == <<"d","e","l","e","t","e","d">>
Str_draft == <<"d","r","a","f","t">>
Str_recent == <<"r","e","c","e","n","t">>
Str_important == <<"i","m","p","o","r","t","a","n","t">>
FlagSeen == <<"\\","S","e","e","n">>
FlagAnswered == <<"\\","A","n","s","w","e","r","e","d">>
FlagFlagged == <<"\\","F","l","a","g","g","e","d">>
FlagDeleted == <<"\\","D","e","l","e","t","e","d">>
FlagDraft == <<"\\","D","r","a","f","t">>
FlagRecent == <<"\\","R","e","c","e","n","t">>
FlagImportant == <<"$","I","m","p","o","r","t","a","n","t">>

\* the lookup made with the name as written
convertToIMAPFlag_NoLower(flag) ==
    IF HasPrefix(flag, "\\") \/ HasPrefix(flag, "$") THEN flag
    ELSE LET flagLower == flag
         IN CASE flagLower = Str_seen -> FlagSeen
              [] flagLower = Str_answered -> FlagAnswered
              [] flagLower = Str_flagged -> FlagFlagged
              [] flagLower = Str_deleted -> FlagDeleted
              [] flagLower = Str_draft -> FlagDraft
              [] flagLower = Str_recent -> FlagRecent
              [] flagLower = Str_important -> FlagImportant
              [] OTHER -> flag

convertToIMAPFlag(flag) ==
    IF HasPrefix(flag, "\\") \/ HasPrefix(flag, "$") THEN flag
    ELSE LET flagLower == ToLower(flag)
         IN CASE flagLower = Str_seen -> FlagSeen
              [] flagLower = Str_answered -> FlagAnswered
              [] flagLower = Str_flagged -> FlagFlagged
              [] flagLower = Str_deleted -> FlagDeleted
              [] flagLower = Str_draft -> FlagDraft
              [] flagLower = Str_recent -> FlagRecent
              [] flagLower = Str_important -> FlagImportant
              [] OTHER -> flag

\* the characters of ^[a-zA-Z0-9_.-]+$
KeywordChars ==
    {UpperChars[i] : i \in 1..26} \cup {LowerChars[i] : i \in 1..26}
        \cup {Digits[i] : i \in 1..10} \cup {"_", ".", "-"}

\* isValidFlag: a standard name in any case, a name starting with \ or $, or a keyword
isValidFlag(flag) ==
    LET flagLower == ToLower(flag)
    IN \/ flagLower \in {Str_seen, Str_answered, Str_flagged, Str_deleted,
                         Str_draft, Str_recent, Str_important}
       \/ HasPrefix(flag, "\\") \/ HasPrefix(flag, "$")
       \/ Len(flag) >= 1 /\ \A i \in 1..Len(flag) : flag[i] \in KeywordChars

----
\* The go-imap primitives the compiler calls.

\* UIDSet.AddRange(start, stop) on an empty set: the set of one range.  A stop
\* below a non-zero start, or a zero start, stores the range the other way
\* round; a stored Stop of 0 is "*".
AddRange(start, stop) ==
    IF (stop < start /\ stop # 0) \/ start = 0
    THEN <<[Start |-> stop, Stop |-> start]>>
    ELSE <<[Start |-> start, Stop |-> stop]>>

intersectSince(t1, t2) ==
    CASE t1 = 0 -> t2
      [] t2 = 0 -> t1
      [] t1 > t2 -> t1
      [] OTHER -> t2

intersectBefore(t1, t2) ==
    CASE t1 = 0 -> t2
      [] t2 = 0 -> t1
      [] t1 < t2 -> t1
      [] OTHER -> t2

\* criteria.And(other): intersects two search criteria.  Lists are appended,
\* dates intersected; Larger and Smaller are taken from other when it is the
\* stricter one or when the receiver has none.
And(c, other) ==
    [nil |-> FALSE,
     Since |-> intersectSince(c.Since, other.Since),
     Before |-> intersectBefore(c.Before, other.Before),
     Header |-> c.Header \o other.Header,
     Body |-> c.Body \o other.Body,
     Text |-> c.Text \o other.Text,
     Flag |-> c.Flag \o other.Flag,
     NotFlag |-> c.NotFlag \o other.NotFlag,
     Larger |-> IF c.Larger = Int64Zero \/ Int64Less(c.Larger, other.Larger)
                THEN other.Larger ELSE c.Larger,
     Smaller |-> IF c.Smaller = Int64Zero \/ Int64Less(other.Smaller, c.Smaller)
                 THEN other.Smaller ELSE c.Smaller,
     UID |-> c.UID \o other.UID,
     Not |-> c.Not \o other.Not,
     Or |-> c.Or \o other.Or]

----
\* The compiler (funcs.go, package dsl).

UIDMod == Pow2(UIDBits)

\* the uint32 arithmetic of the UID range
UIDAdd1(u) == (u + 1) % UIDMod
UIDSub1(u) == (u + UIDMod - 1) % UIDMod

HeaderField(key, value) == [Key |-> key, Value |-> value]
OptField(value, key) == IF value # "" THEN <<HeaderField(key, value)>> ELSE <<>>
OptText(value) == IF value # "" THEN <<value>> ELSE <<>>

\* the "for _, flag := range" loops appending the converted flags
ConvertFlags(flags) == [i \in 1..Len(flags) |-> convertToIMAPFlag(flags[i])]

\* BuildSearchCriteria, lines 376-394: the UID range of the output config
UIDCriteria(oc) ==
    IF ~oc.nil /\ (oc.AfterUID > 0 \/ oc.BeforeUID > 0)
    THEN <<(IF oc.AfterUID > 0 /\ oc.BeforeUID > 0
            THEN AddRange(UIDAdd1(oc.AfterUID), UIDSub1(oc.BeforeUID))
            ELSE IF oc.AfterUID > 0
            THEN AddRange(UIDAdd1(oc.AfterUID), 0)
            ELSE AddRange(1, UIDSub1(oc.BeforeUID)))>>
    ELSE <<>>

\* BuildSearchCriteria, lines 396-413: the search options of the output config
PagingOptions(oc) ==
    IF ~oc.nil /\ oc.Limit > 0
    THEN [nil |-> FALSE, ReturnAll |-> TRUE, ReturnCount |-> TRUE]
    ELSE ZeroOptions

\* BuildSearchCriteria, lines 237-415: a config without operator
FlatCriteria(cfg, oc) ==
    LET since == parseDate(cfg.Since)
        before == parseDate(cfg.Before)
        on == parseDate(cfg.On)
        larger == parseSize(cfg.Size.LargerThan)
        smaller == parseSize(cfg.Size.SmallerThan)
        since1 == IF cfg.Since # "" THEN since.t ELSE 0
        before1 == IF cfg.Before # "" THEN before.t ELSE 0
        since2 == IF cfg.On # "" THEN on.t ELSE since1
        before2 == IF cfg.On # "" THEN on.t + 1 ELSE before1
        since3 == IF cfg.WithinDays > 0 THEN Today - cfg.WithinDays ELSE since2
    IN  IF cfg.Since # "" /\ ~since.ok THEN Fail("invalid 'since' date")
        ELSE IF cfg.Before # "" /\ ~before.ok THEN Fail("invalid 'before' date")
        ELSE IF cfg.On # "" /\ ~on.ok THEN Fail("invalid 'on' date")
        ELSE IF cfg.Size.set /\ cfg.Size.LargerThan # <<>> /\ ~larger.ok
        THEN Fail("invalid 'larger_than' size")
        ELSE IF cfg.Size.set /\ cfg.Size.SmallerThan # <<>> /\ ~smaller.ok
        THEN Fail("invalid 'smaller_than' size")
        ELSE Ret([nil |-> FALSE,
                  Since |-> since3,
                  Before |-> before2,
                  Header |-> OptField(cfg.From, "From") \o OptField(cfg.To, "To")
                             \o OptField(cfg.Cc, "Cc") \o OptField(cfg.Bcc, "Bcc")
                             \o OptField(cfg.Subject, "Subject")
                             \o OptField(cfg.SubjectContains, "Subject")
                             \o (IF cfg.Header.set /\ cfg.Header.Name # ""
                                 THEN <<HeaderField(cfg.Header.Name, cfg.Header.Value)>>
                                 ELSE <<>>),
                  Body |-> OptText(cfg.BodyContains),
                  Text |-> OptText(cfg.Text),
                  Flag |-> IF cfg.Flags.set THEN ConvertFlags(cfg.Flags.Has) ELSE <<>>,
                  NotFlag |-> IF cfg.Flags.set THEN ConvertFlags(cfg.Flags.NotHas) ELSE <<>>,
                  Larger |-> IF cfg.Size.set /\ cfg.Size.LargerThan # <<>>
                             THEN larger.size ELSE Int64Zero,
                  Smaller |-> IF cfg.Size.set /\ cfg.Size.SmallerThan # <<>>
                              THEN smaller.size ELSE Int64Zero,
                  UID |-> UIDCriteria(oc),
                  Not |-> <<>>,
                  Or |-> <<>>],
                 PagingOptions(oc), "")

RECURSIVE BuildSearchCriteria(_, _)
RECURSIVE buildComplexSearchCriteria(_, _)
RECURSIVE buildAndCondition(_, _)
RECURSIVE AndLoop(_, _, _, _)
RECURSIVE buildOrCondition(_, _)
RECURSIVE OrLoop(_, _, _, _, _)
RECURSIVE buildNotCondition(_, _)
RECURSIVE buildSingleCondition(_, _)

\* the error of an operator with an empty conditions list (lines 221-232)
EmptyConditionsError(operator) ==
    CASE operator = OperatorAnd -> "empty conditions list for AND operator"
      [] operator = OperatorOr -> "empty conditions list for OR operator"
      [] operator = OperatorNot -> "NOT operator requires at least one condition"
      [] OTHER -> "unsupported operator"

BuildSearchCriteria(cfg, oc) ==
    IF cfg.Operator # ""
    THEN IF Len(cfg.Conditions) = 0
         THEN Fail(EmptyConditionsError(cfg.Operator))
         ELSE buildComplexSearchCriteria(cfg, oc)
    ELSE FlatCriteria(cfg, oc)

\* buildComplexSearchCriteria without the arity check of NOT
buildComplexSearchCriteria_NoArity(cfg, oc) ==
    CASE cfg.Operator = OperatorAnd -> buildAndCondition(cfg.Conditions, oc)
      [] cfg.Operator = OperatorOr -> buildOrCondition(cfg.Conditions, oc)
      [] cfg.Operator = OperatorNot ->
            IF Len(cfg.Conditions) = 0
            THEN Fail("NOT operator requires at least one condition")
            ELSE buildNotCondition(cfg.Conditions[1], oc)
      [] OTHER -> Fail("unsupported operator")

buildComplexSearchCriteria(cfg, oc) ==
    CASE cfg.Operator = OperatorAnd -> buildAndCondition(cfg.Conditions, oc)
      [] cfg.Operator = OperatorOr -> buildOrCondition(cfg.Conditions, oc)
      [] cfg.Operator = OperatorNot ->
            IF Len(cfg.Conditions) = 0
            THEN Fail("NOT operator requires at least one condition")
            ELSE IF Len(cfg.Conditions) > 1
            THEN Fail("operator 'not' can only have one condition")
            ELSE buildNotCondition(cfg.Conditions[1], oc)
      [] OTHER -> Fail("unsupported operator")

\* AndLoop with the loop bound off by one: the last condition is never merged
RECURSIVE AndLoop_SkipsLast(_, _, _, _)
AndLoop_SkipsLast(conditions, i, mainCriteria, opts) ==
    IF i >= Len(conditions) THEN Ret(mainCriteria, opts, "")
    ELSE LET sub == buildSingleCondition(conditions[i], NilOutputConfig)
         IN IF sub.err # "" THEN Fail(sub.err)
            ELSE AndLoop_SkipsLast(conditions, i + 1, And(mainCriteria, sub.criteria), opts)

\* the loop of buildAndCondition from index i on (1-based)
AndLoop(conditions, i, mainCriteria, opts) ==
    IF i > Len(conditions) THEN Ret(mainCriteria, opts, "")
    ELSE LET sub == buildSingleCondition(conditions[i], NilOutputConfig)
         IN IF sub.err # "" THEN Fail(sub.err)
            ELSE AndLoop(conditions, i + 1, And(mainCriteria, sub.criteria), opts)

buildAndCondition(conditions, oc) ==
    IF Len(conditions) = 0 THEN Fail("empty conditions list for AND operator")
    ELSE LET first == buildSingleCondition(conditions[1], oc)
         IN IF first.err # "" THEN Fail(first.err)
            ELSE AndLoop(conditions, 2, first.criteria, first.options)

\* the second element of the pair built for the last child of an odd-length list
SelfPair(c1) == c1

\* OrLoop advancing by one instead of two: overlapping pairs
RECURSIVE OrLoop_StepOne(_, _, _, _, _)
OrLoop_StepOne(conditions, i, resultCriteria, opts, oc) ==
    IF i > Len(conditions) THEN Ret(resultCriteria, opts, "")
    ELSE LET c1 == buildSingleCondition(conditions[i], NilOutputConfig)
             opts1 == IF i = 1 /\ ~oc.nil THEN c1.options ELSE opts
         IN IF c1.err # "" THEN Fail(c1.err)
            ELSE IF i = Len(conditions)
            THEN OrLoop_StepOne(conditions, i + 1,
                        [resultCriteria EXCEPT !.Or = Append(@, <<c1.criteria, SelfPair(c1.criteria)>>)],
                        opts1, oc)
            ELSE LET c2 == buildSingleCondition(conditions[i + 1], NilOutputConfig)
                 IN IF c2.err # "" THEN Fail(c2.err)
                    ELSE OrLoop_StepOne(conditions, i + 1,
                                [resultCriteria EXCEPT !.Or = Append(@, <<c1.criteria, c2.criteria>>)],
                                opts1, oc)

\* the loop of buildOrCondition from index i on (1-based, step 2)
OrLoop(conditions, i, resultCriteria, opts, oc) ==
    IF i > Len(conditions) THEN Ret(resultCriteria, opts, "")
    ELSE LET c1 == buildSingleCondition(conditions[i], NilOutputConfig)
             opts1 == IF i = 1 /\ ~oc.nil THEN c1.options ELSE opts
         IN IF c1.err # "" THEN Fail(c1.err)
            ELSE IF i = Len(conditions)
            THEN OrLoop(conditions, i + 2,
                        [resultCriteria EXCEPT !.Or = Append(@, <<c1.criteria, SelfPair(c1.criteria)>>)],
                        opts1, oc)
            ELSE LET c2 == buildSingleCondition(conditions[i + 1], NilOutputConfig)
                 IN IF c2.err # "" THEN Fail(c2.err)
                    ELSE OrLoop(conditions, i + 2,
                                [resultCriteria EXCEPT !.Or = Append(@, <<c1.criteria, c2.criteria>>)],
                                opts1, oc)

buildOrCondition(conditions, oc) ==
    IF Len(conditions) = 0 THEN Fail("empty conditions list for OR operator")
    ELSE IF Len(conditions) = 1 THEN buildSingleCondition(conditions[1], oc)
    ELSE OrLoop(conditions, 1, ZeroCriteria, NilOptions, oc)

\* buildNotCondition returning the sub-criteria without the negation
buildNotCondition_NoWrap(condition, oc) ==
    LET sub == buildSingleCondition(condition, oc)
    IN IF sub.err # "" THEN Fail(sub.err)
       ELSE Ret(sub.criteria, sub.options, "")

buildNotCondition(condition, oc) ==
    LET sub == buildSingleCondition(condition, oc)
    IN IF sub.err # "" THEN Fail(sub.err)
       ELSE Ret([ZeroCriteria EXCEPT !.Not = <<sub.criteria>>], sub.options, "")

buildSingleCondition(condition, oc) ==
    IF condition.Operator # "" /\ Len(condition.Conditions) > 0
    THEN buildComplexSearchCriteria(condition, oc)
    ELSE BuildSearchCriteria(condition, oc)

----
\* SearchConfig.Validate: "" is a nil error.

RECURSIVE Validate(_)

\* the checks of the fields of the node itself, dates to sizes
ValidateFields(s) ==
    IF s.Since # "" /\ ~parseDate(s.Since).ok THEN "invalid 'since' date"
    ELSE IF s.Before # "" /\ ~parseDate(s.Before).ok THEN "invalid 'before' date"
    ELSE IF s.On # "" /\ ~parseDate(s.On).ok THEN "invalid 'on' date"
    ELSE IF s.Header.set /\ s.Header.Name = ""
    THEN "header name is required when using header search"
    ELSE IF s.Flags.set /\ \E i \in 1..Len(s.Flags.Has) : ~isValidFlag(s.Flags.Has[i])
    THEN "invalid flag in 'has' list"
    ELSE IF s.Flags.set /\ \E i \in 1..Len(s.Flags.NotHas) : ~isValidFlag(s.Flags.NotHas[i])
    THEN "invalid flag in 'not_has' list"
    ELSE IF s.Size.set /\ s.Size.LargerThan # <<>> /\ ~parseSize(s.Size.LargerThan).ok
    THEN "invalid 'larger_than' size"
    ELSE IF s.Size.set /\ s.Size.SmallerThan # <<>> /\ ~parseSize(s.Size.SmallerThan).ok
    THEN "invalid 'smaller_than' size"
    ELSE ""

\* Validate that does not descend into the conditions
Validate_SkipsConditions(s) ==
    IF ValidateFields(s) # "" THEN ValidateFields(s)
    ELSE IF s.Operator = "" THEN ""
    ELSE IF s.Operator \notin {OperatorAnd, OperatorOr, OperatorNot} THEN "invalid operator"
    ELSE IF Len(s.Conditions) = 0 THEN "operator specified but no conditions provided"
    ELSE IF s.Operator = OperatorNot /\ Len(s.Conditions) > 1
    THEN "operator 'not' can only have one condition"
    ELSE ""

Validate(s) ==
    IF ValidateFields(s) # "" THEN ValidateFields(s)
    ELSE IF s.Operator = "" THEN ""
    ELSE IF s.Operator \notin {OperatorAnd, OperatorOr, OperatorNot} THEN "invalid operator"
    ELSE IF Len(s.Conditions) = 0 THEN "operator specified but no conditions provided"
    ELSE IF s.Operator = OperatorNot /\ Len(s.Conditions) > 1
    THEN "operator 'not' can only have one condition"
    ELSE IF \E i \in 1..Len(s.Conditions) : Validate(s.Conditions[i]) # ""
    THEN "invalid condition"
    ELSE ""

----
\* The server's reading of a compiled query (IMAP SEARCH): all keys of a
\* query are ANDed, every Not element must fail, every Or pair must hold.

\* a stored range with Stop = 0 is open-ended
InRange(r, u) == r.Start <= u /\ (r.Stop = 0 \/ u <= r.Stop)
InUIDSet(set, u) == \E i \in 1..Len(set) : InRange(set[i], u)

HeaderMatches(h, m) == h.Key \in DOMAIN m.Hdr /\ (h.Value = "" \/ m.Hdr[h.Key] = h.Value)

RECURSIVE Matches(_, _)
Matches(c, m) ==
    /\ c.Since = 0 \/ m.Date >= c.Since
    /\ c.Before = 0 \/ m.Date < c.Before
    /\ \A i \in 1..Len(c.Header) : HeaderMatches(c.Header[i], m)
    /\ \A i \in 1..Len(c.Body) : m.Body = c.Body[i]
    /\ \A i \in 1..Len(c.Text) : m.Body = c.Text[i]
    /\ \A i \in 1..Len(c.Flag) : c.Flag[i] \in m.Flags
    /\ \A i \in 1..Len(c.NotFlag) : c.NotFlag[i] \notin m.Flags
    /\ c.Larger = Int64Zero \/ Int64Less(c.Larger, Int64OfNat(m.Size))
    /\ c.Smaller = Int64Zero \/ Int64Less(Int64OfNat(m.Size), c.Smaller)
    /\ \A i \in 1..Len(c.UID) : InUIDSet(c.UID[i], m.UID)
    /\ \A i \in 1..Len(c.Not) : ~Matches(c.Not[i], m)
    /\ \A i \in 1..Len(c.Or) : Matches(c.Or[i][1], m) \/ Matches(c.Or[i][2], m)

----
\* Inputs: the search configs, output configs and messages of the model.

Comb(operator, conditions) ==
    [ZeroSearchConfig EXCEPT !.Operator = operator, !.Conditions = conditions]

LeafFromA == [ZeroSearchConfig EXCEPT !.From = "a"]
LeafFromB == [ZeroSearchConfig EXCEPT !.From = "b"]
LeafSubject == [ZeroSearchConfig EXCEPT !.Subject = "s"]
LeafSinceSeen ==
    [ZeroSearchConfig EXCEPT !.Since = "2024-01-02",
                             !.Flags = [set |-> TRUE, Has |-> <<Str_seen>>, NotHas |-> <<>>]]
LeafBeforeUnseen ==
    [ZeroSearchConfig EXCEPT !.Before = "2024-01-03",
                             !.Flags = [set |-> TRUE, Has |-> <<>>, NotHas |-> <<FlagSeen>>]]
LeafBadDate == [ZeroSearchConfig EXCEPT !.Since = "bad"]

Leaves == {LeafFromA, LeafFromB, LeafSubject, LeafSinceSeen, LeafBeforeUnseen, LeafBadDate}

\* the operators a config may carry: the three of the DSL and an unknown one
Operators == {OperatorAnd, OperatorOr, OperatorNot, "xor"}

\* combinators over at most n leaves
FlatConfigs(n) == {Comb(op, cs) : op \in Operators, cs \in SeqsOf(Leaves, 0, n)}

\* combinators that occur as children of other combinators
InnerLists == {<<>>, <<LeafFromA>>, <<LeafFromA, LeafSubject>>, <<LeafSinceSeen, LeafFromB>>}
InnerConfigs == {Comb(op, cs) : op \in Operators, cs \in InnerLists}
NestedPool == {LeafFromA, LeafSinceSeen, LeafBadDate} \cup InnerConfigs
NestedConfigs(n) ==
    {Comb(op, cs) : op \in {OperatorAnd, OperatorOr, OperatorNot},
                    cs \in SeqsOf(NestedPool, 1, n)}

\* leaves with any of the four date fields, alone or together with a sender
DateLeaves ==
    {[ZeroSearchConfig EXCEPT !.Since = s, !.Before = b, !.On = o, !.WithinDays = w, !.From = f] :
        s \in {"", "2024-01-02"}, b \in {"", "2024-01-03"},
        o \in {"", "2024-01-01", "2024-01-03"}, w \in {0, 2}, f \in {"", "a"}}

\* flag names: the standard names in every mix of cases, names written in
\* IMAP form, keywords, and names that only resemble a standard one
StandardNames ==
    {Str_seen, Str_answered, Str_flagged, Str_deleted, Str_draft, Str_recent, Str_important}
ToUpperChar(c) ==
    IF \E i \in 1..26 : LowerChars[i] = c
    THEN UpperChars[CHOOSE i \in 1..26 : LowerChars[i] = c]
    ELSE c
CaseMixes(name) ==
    {[i \in 1..Len(name) |-> IF i \in S THEN ToUpperChar(name[i]) ELSE name[i]] :
        S \in {{}, {1}, {2}, {Len(name)}, {1, 3}, 1..Len(name)}}
FlagNames ==
    UNION {CaseMixes(name) : name \in StandardNames}
    \cup {FlagSeen, FlagFlagged, FlagImportant,
          <<"\\","s","e","e","n">>, <<"$","s","e","e","n">>, <<"\\">>, <<"$","L","a","b","e","l">>,
          <<"C","u","s","t","o","m","T","a","g">>, <<"c","u","s","t","o","m">>,
          <<"S","e","e","n","s">>, <<"s","e","e">>, <<"s","e","e","n"," ">>, <<"u","n","s","e","e","n">>,
          <<>>}
FlagLeaves ==
    {[ZeroSearchConfig EXCEPT !.Flags = [set |-> TRUE, Has |-> <<f>>, NotHas |-> <<>>]] : f \in FlagNames}
    \cup {[ZeroSearchConfig EXCEPT !.Flags = [set |-> TRUE, Has |-> <<Str_flagged>>, NotHas |-> <<f>>]] :
             f \in FlagNames}

\* size strings: every string of up to MaxSizeLen characters over a few
\* digits, units and other characters, the examples of the documentation, and
\* numbers around 2^63 and 2^64
MaxSizeLen == 2
SizeChars == {"0", "1", "9", "B", "K", "M", "G", "k", "-", " "}
DigitString(ds) == [i \in 1..Len(ds) |-> Digits[ds[i] + 1]]
LongSizes ==
    {<<"1","0","K">>, <<"5","M">>, <<"1","0","0","B">>, <<"1","G">>, <<"b","a","d">>,
     <<"1","0","0","b">>, <<"1","0","K","B">>, <<"1",".","5","M">>, <<"+","5">>, <<"0","0","7","K">>,
     DigitString(<<9,2,2,3,3,7,2,0,3,6,8,5,4,7,7,5,8,0,7>>),
     DigitString(<<9,2,2,3,3,7,2,0,3,6,8,5,4,7,7,5,8,0,8>>),
     DigitString(<<9,9,9,9,9,9,9,9,9,9,9,9,9,9,9,9,9,9,9,9>>),
     DigitString(<<9,0,0,7,1,9,9,2,5,4,7,4,0,9,9,1>>) \o <<"K">>,
     DigitString(<<9,0,0,7,1,9,9,2,5,4,7,4,0,9,9,2>>) \o <<"K">>,
     DigitString(<<1,8,0,1,4,3,9,8,5,0,9,4,8,1,9,8,4>>) \o <<"K">>,
     DigitString(<<8,7,9,6,0,9,3,0,2,2,2,0,7>>) \o <<"M">>,
     DigitString(<<8,7,9,6,0,9,3,0,2,2,2,0,8>>) \o <<"M">>,
     DigitString(<<8,5,8,9,9,3,4,5,9,1>>) \o <<"G">>,
     DigitString(<<8,5,8,9,9,3,4,5,9,2>>) \o <<"G">>,
     DigitString(<<1,7,1,7,9,8,6,9,1,8,4>>) \o <<"G">>}
SizeStrings(n) == SeqsOf(SizeChars, 0, n) \cup LongSizes
SizeLeaves(n) ==
    {[ZeroSearchConfig EXCEPT !.Size = [set |-> TRUE, LargerThan |-> z, SmallerThan |-> <<>>]] :
        z \in SizeStrings(n)}

\* leaves with a header search, its name given or left empty
HeaderLeaves ==
    {[ZeroSearchConfig EXCEPT !.Header = [set |-> TRUE, Name |-> n, Value |-> v], !.From = f] :
        n \in {"", "X-Tag"}, v \in {"", "v"}, f \in {"", "a"}}

\* nodes that set leaf fields together with an operator or conditions, at the
\* root and below a combinator
MixedNodes ==
    {[c EXCEPT !.Operator = op, !.Conditions = cs] :
        c \in {LeafFromA, LeafSinceSeen, LeafBadDate},
        op \in {"", OperatorAnd, OperatorOr, OperatorNot},
        cs \in {<<LeafSubject>>, <<LeafSubject, LeafFromB>>, <<LeafBadDate>>}}
MixedConfigs ==
    MixedNodes
        \cup {Comb(op, <<m>>) : op \in {OperatorAnd, OperatorOr, OperatorNot}, m \in MixedNodes}
        \cup {Comb(OperatorAnd, <<LeafFromB, Comb(OperatorNot, <<m>>)>>) : m \in MixedNodes}

Configs(conditions, nested, sizeLen) ==
    Leaves \cup DateLeaves \cup FlagLeaves \cup SizeLeaves(sizeLen) \cup HeaderLeaves
        \cup MixedConfigs \cup FlatConfigs(conditions) \cup NestedConfigs(nested)

\* the shapes compiled together with an output config
OrAB == Comb(OperatorOr, <<LeafFromA, LeafFromB>>)
PagedConfigs ==
    {LeafFromA, LeafBadDate,
     Comb(OperatorAnd, <<LeafFromA, LeafSubject>>),
     Comb(OperatorAnd, <<OrAB, LeafSubject>>),
     Comb(OperatorAnd, <<LeafSubject, OrAB>>),
     Comb(OperatorAnd, <<Comb(OperatorNot, <<LeafFromA>>), LeafSubject>>),
     Comb(OperatorOr, <<LeafFromA>>),
     OrAB,
     Comb(OperatorOr, <<LeafFromA, LeafFromB, LeafSubject>>),
     Comb(OperatorNot, <<LeafFromA>>),
     Comb(OperatorNot, <<OrAB>>),
     Comb(OperatorNot, <<LeafFromA, LeafFromB>>),
     Comb("xor", <<LeafFromA>>)}

UIDs == 0..(UIDMod - 1)
OutputConfigs ==
    {OutputConfig(l, 0, a, b) : l \in {0, MaxLimit}, a \in UIDs, b \in UIDs}

\* messages of a mailbox, as far as a query can tell them apart
Message(from, subject, date, flags, uid) ==
    [Hdr |-> [k \in {"From", "Subject"} |-> IF k = "From" THEN from ELSE subject],
     Date |-> date, Flags |-> flags, Size |-> 1, Body |-> "", UID |-> uid]
Messages ==
    {Message(f, s, d, fl, 1) : f \in {"a", "b", "c"}, s \in {"s", "t"},
                               d \in 1..3, fl \in {{}, {FlagSeen}}}
PagedMessages ==
    {Message(f, s, 1, {}, u) : f \in {"a", "b", "c"}, s \in {"s", "t"}, u \in 1..(UIDMod - 1)}

----
\* The compiler as a state machine: a caller hands a config to BuildSearchCriteria.

FetchIdle ==
    /\ fpc = "idle"
    /\ mailboxSize = 0
    /\ searchData = [All |-> <<>>, Count |-> 0]
    /\ seqNums = <<>>
    /\ totalFound = 0
    /\ seqSet = {}
    /\ commands = <<>>
    /\ result = <<>>
    /\ fetchErr = ""
    /\ variant = "batch"
    /\ required = <<>>
    /\ msgIdx = 0
    /\ response = {}

\* Validate not called
ValidateIdle ==
    /\ validated = FALSE
    /\ validateErr = ""

\* the zero ActionConfig and a nil *ActionConfig
ZeroFlagActions == [set |-> FALSE, Add |-> <<>>, Remove |-> <<>>]
ZeroExport == [set |-> FALSE, Format |-> ""]
ZeroActionConfig ==
    [nil |-> FALSE, Flags |-> ZeroFlagActions, MoveTo |-> "", CopyTo |-> "",
     Delete |-> "nil", Export |-> ZeroExport]
NilActionConfig == [ZeroActionConfig EXCEPT !.nil = TRUE]

\* the other mailboxes of the account, empty
NoFolders == [name \in {"Archive", "Trash"} |-> {}]

\* ExecuteActions not called
ActionsIdle ==
    /\ mailbox = <<>>
    /\ folders = NoFolders
    /\ messages = <<>>
    /\ actions = NilActionConfig
    /\ apc = "idle"
    /\ issued = <<>>
    /\ actErr = ""
    /\ exported = {}
    /\ exportIdx = 0

\* a YAML scalar under a key: absent, an integer or a string
Absent == [set |-> FALSE, kind |-> "", int |-> 0, str |-> ""]
YInt(n) == [set |-> TRUE, kind |-> "int", int |-> n, str |-> ""]
YStr(s) == [set |-> TRUE, kind |-> "string", int |-> 0, str |-> s]

\* a YAML mapping with none of the keys of an output block
EmptyDocument ==
    [format |-> Absent, limit |-> Absent, offset |-> Absent,
     after_uid |-> Absent, before_uid |-> Absent, fields |-> <<>>]

\* the zero OutputConfig with its Format and Fields
ZeroOutput ==
    [Format |-> "", Limit |-> 0, Offset |-> 0, AfterUID |-> 0, BeforeUID |-> 0, Fields |-> <<>>]

\* UnmarshalYAML not called
UnmarshalIdle ==
    /\ document = EmptyDocument
    /\ output = ZeroOutput
    /\ unmarshalErr = ""
    /\ upc = "idle"

\* a TemplateConfig with nothing defined.  Variables is whether every
\* variable is a string, a list of strings or a map of these; Templates the
\* names of the templates, Broken those among them that fail to render
ZeroTemplateConfig ==
    [Variables |-> TRUE, Templates |-> {}, Broken |-> {}, Rules |-> {}, Generate |-> <<>>]

\* Generate not called
GenerateIdle ==
    /\ templateConfig = ZeroTemplateConfig
    /\ emails = <<>>
    /\ genErr = ""
    /\ gpc = "idle"
    /\ genEntry = 0
    /\ genIndex = 0

\* none of the later operations started
LaterIdle == ValidateIdle /\ ActionsIdle /\ UnmarshalIdle /\ GenerateIdle

Init ==
    /\ \/ config \in Configs(MaxConditions, MaxNested, MaxSizeLen) /\ outputConfig = NilOutputConfig
       \/ config \in PagedConfigs /\ outputConfig \in OutputConfigs
    /\ criteria = NilCriteria
    /\ options = NilOptions
    /\ err = ""
    /\ pc = "start"
    /\ FetchIdle
    /\ LaterIdle

\* criteria, options, err := BuildSearchCriteria(config, outputConfig)
Compile ==
    /\ pc = "start"
    /\ LET r == BuildSearchCriteria(config, outputConfig)
       IN /\ criteria' = r.criteria
          /\ options' = r.options
          /\ err' = r.err
    /\ pc' = "done"
    /\ UNCHANGED <<config, outputConfig>>
    /\ UNCHANGED fetchVars
    /\ UNCHANGED contentVars
    /\ UNCHANGED laterVars

\* validateErr := config.Validate(), before the config is compiled
ValidateConfig ==
    /\ pc = "start"
    /\ ~validated
    /\ validated' = TRUE
    /\ validateErr' = Validate(config)
    /\ UNCHANGED compileVars
    /\ UNCHANGED fetchVars
    /\ UNCHANGED contentVars
    /\ UNCHANGED <<actionVars, unmarshalVars, generateVars>>

Next ==
    \/ ValidateConfig
    \/ Compile

Spec == Init /\ [][Next]_vars

----
\* Claims about the compiler.

Compiled(cfg) == BuildSearchCriteria(cfg, NilOutputConfig)
Unpaged == pc = "done" /\ outputConfig.nil

C2_OrMatchesAnyChild ==
    (Unpaged /\ config.Operator = OperatorOr /\ err = "")
    => \A m \in Messages :
          Matches(criteria, m)
          <=> \E i \in 1..Len(config.Conditions) :
                 Matches(Compiled(config.Conditions[i]).criteria, m)

\* C3: an OR of one child is the child's query; an OR of n >= 2 children has
\* ceil(n/2) pairs, pair k being children 2k and 2k+1, the last child of an
\* odd list being paired with itself; no other field of the result is set.
C3_OrPairsByPosition ==
    (pc = "done" /\ config.Operator = OperatorOr /\ err = "")
    => LET n == Len(config.Conditions)
           c(i) == Compiled(config.Conditions[i]).criteria
       IN IF n = 1
          THEN criteria = buildSingleCondition(config.Conditions[1], outputConfig).criteria
          ELSE /\ Len(criteria.Or) = (n + 1) \div 2
               /\ \A k \in 1..Len(criteria.Or) :
                     criteria.Or[k] = <<c(2 * k - 1), c(IF 2 * k <= n THEN 2 * k ELSE n)>>
               /\ [criteria EXCEPT !.Or = <<>>] = ZeroCriteria

C3_Witness ==
    /\ pc = "done" /\ config.Operator = OperatorOr /\ err = ""
    /\ Len(config.Conditions) = 3
    /\ Len(criteria.Or) = 2
    /\ criteria.Or[1][1] # criteria.Or[1][2]
    /\ criteria.Or[2][1] = criteria.Or[2][2]
    /\ criteria.Or[2][1] # criteria.Or[1][2]

\* C4: NOT[A] without pagination compiles whenever A does, to a query whose
\* only constraint is a Not list holding the query of A, matching exactly the
\* messages the query of A does not match.
C4_NotWrapsChild ==
    (Unpaged /\ config.Operator = OperatorNot /\ Len(config.Conditions) = 1
       /\ Compiled(config.Conditions[1]).err = "")
    => /\ err = ""
       /\ criteria = [ZeroCriteria EXCEPT !.Not = <<Compiled(config.Conditions[1]).criteria>>]
       /\ \A m \in Messages :
             Matches(criteria, m) <=> ~Matches(Compiled(config.Conditions[1]).criteria, m)

C4_Witness ==
    /\ Unpaged /\ config.Operator = OperatorNot /\ err = ""
    /\ Len(config.Conditions) = 1
    /\ config.Conditions[1].Operator = OperatorAnd
    /\ Len(criteria.Not) = 1 /\ Len(criteria.Not[1].Header) = 2
    /\ \E m \in Messages : Matches(criteria, m)
    /\ \E m \in Messages : ~Matches(criteria, m)

\* a combinator node, at any depth, that the compiler must reject
RECURSIVE Malformed(_)
Malformed(cfg) ==
    /\ cfg.Operator # ""
    /\ \/ Len(cfg.Conditions) = 0
       \/ cfg.Operator = OperatorNot /\ Len(cfg.Conditions) > 1
       \/ cfg.Operator \notin {OperatorAnd, OperatorOr, OperatorNot}
       \/ \E i \in 1..Len(cfg.Conditions) : Malformed(cfg.Conditions[i])

\* C5: a config with a malformed combinator at any depth is answered by an
\* error, and an error always comes with a nil query and nil options.
C5_MalformedIsError ==
    pc = "done"
    => /\ Malformed(config) => err # ""
       /\ err # "" => criteria.nil /\ options.nil

C5_Witness ==
    /\ pc = "done" /\ err # "" /\ criteria.nil /\ options.nil
    /\ config.Operator = OperatorAnd
    /\ Len(config.Conditions) = 2
    /\ ~Malformed(config.Conditions[1])
    /\ Compiled(config.Conditions[1]).err = ""
    /\ config.Conditions[2].Operator = OperatorOr
    /\ Len(config.Conditions[2].Conditions) = 0

----
\* Claims about the output config handed to the compiler.

Paged == pc = "done" /\ ~outputConfig.nil /\ err = ""
InBounds(u) ==
    /\ outputConfig.AfterUID > 0 => u > outputConfig.AfterUID
    /\ outputConfig.BeforeUID > 0 => u < outputConfig.BeforeUID

\* C8: with a UID lower and/or upper bound in the output config, every message
\* the returned query matches has its UID strictly inside the bounds and
\* satisfies the predicate, whatever the shape of the top-level predicate.
C8_MatchesInsideUIDBounds ==
    (Paged /\ (outputConfig.AfterUID > 0 \/ outputConfig.BeforeUID > 0))
    => \A m \in PagedMessages :
          Matches(criteria, m) => InBounds(m.UID) /\ Matches(Compiled(config).criteria, m)

\* C9: for a leaf, the UID restriction admits exactly the UIDs strictly inside
\* the bounds, and lower+1 / upper-1 neither wrap around nor yield the 0 that
\* the range encoding reads as unbounded.
C9_UIDRangeExact ==
    (Paged /\ config.Operator = "" /\ (outputConfig.AfterUID > 0 \/ outputConfig.BeforeUID > 0))
    => /\ Len(criteria.UID) = 1
       /\ \A u \in 1..(UIDMod - 1) : InUIDSet(criteria.UID[1], u) <=> InBounds(u)
       /\ outputConfig.AfterUID > 0 => UIDAdd1(outputConfig.AfterUID) # 0
       /\ outputConfig.BeforeUID > 0 => UIDSub1(outputConfig.BeforeUID) # 0

\* C10: with a non-nil output config whose limit is > 0 the returned options
\* are non-nil and ask for the match list and the count, for every shape.
C10_LimitRequestsAllAndCount ==
    (Paged /\ outputConfig.Limit > 0)
    => ~options.nil /\ options.ReturnAll /\ options.ReturnCount

----
\* Rule.FetchMessages (part_001): search, window, structure fetch.

\* the configs and output configs of the rules fetched
FetchConfigs == {LeafFromA, OrAB, LeafBadDate}
FetchOutputConfigs == {OutputConfig(l, o, 0, 0) : l \in 0..MaxLimit, o \in 0..MaxOffset}

\* the numbers of S in ascending order
RECURSIVE Ascending(_)
Ascending(S) ==
    IF S = {} THEN <<>>
    ELSE LET lo == CHOOSE x \in S : \A y \in S : x <= y
         IN <<lo>> \o Ascending(S \ {lo})

\* ascending lists of sequence numbers of a mailbox of n messages
AscendingLists(n) == {Ascending(S) : S \in SUBSET (1..n)}

\* the answers a server may give to the search: the matches with or without
\* their count, or (count-only servers) a count without the matches
SearchAnswers(n) ==
    {[All |-> s, Count |-> c] : s \in AscendingLists(n), c \in {0}} \cup
    {[All |-> s, Count |-> Len(s)] : s \in AscendingLists(n)} \cup
    {[All |-> <<>>, Count |-> c] : c \in 0..n}

\* the messages of a mailbox of n messages addressed by a sequence range,
\* in the order the server sends them
SeqRangeNums(set, n) == Ascending({k \in 1..n : InUIDSet(set, k)})

Command(name, set) == [cmd |-> name, set |-> set]

\* lines 76-118: the sequence range fetched when only a count came back
ManualSeqSet(total, oc) ==
    LET limit == IF oc.Limit > 0 /\ oc.Limit < total THEN oc.Limit ELSE total
        startSeq == total - oc.Offset
        endSeq == IF startSeq - limit + 1 < 1 THEN 1 ELSE startSeq - limit + 1
    IN AddRange(endSeq, startSeq)

\* Window with the end index one too low (a window of limit + 1 messages)
Window_OffByOne(nums, oc) ==
    LET n == Len(nums)
        limit == IF oc.Limit > 0 /\ oc.Limit < n THEN oc.Limit ELSE n
        offset == IF oc.Offset > n THEN n ELSE oc.Offset
        startIdx == n - 1 - offset
        endIdx == IF startIdx - limit < 0 THEN 0 ELSE startIdx - limit
    IN IF startIdx >= 0 /\ startIdx < n
       THEN [ok |-> TRUE, set |-> {nums[i + 1] : i \in endIdx..startIdx}]
       ELSE [ok |-> FALSE, set |-> {}]

\* lines 145-190 (step 4): the sequence set of the structure fetch; indices
\* are 0-based as in the code, nums[i + 1] is seqNums[i]
Window(nums, oc) ==
    LET n == Len(nums)
        limit == IF oc.Limit > 0 /\ oc.Limit < n THEN oc.Limit ELSE n
        offset == IF oc.Offset > n THEN n ELSE oc.Offset
        startIdx == n - 1 - offset
        endIdx == IF startIdx - limit + 1 < 0 THEN 0 ELSE startIdx - limit + 1
    IN IF startIdx >= 0 /\ startIdx < n
       THEN [ok |-> TRUE, set |-> {nums[i + 1] : i \in endIdx..startIdx}]
       ELSE [ok |-> FALSE, set |-> {}]

InitFetch ==
    /\ config \in FetchConfigs
    /\ outputConfig \in FetchOutputConfigs
    /\ criteria = NilCriteria
    /\ options = NilOptions
    /\ err = ""
    /\ pc = "start"
    /\ fpc = "start"
    /\ mailboxSize \in 0..MaxMailbox
    /\ searchData = [All |-> <<>>, Count |-> 0]
    /\ seqNums = <<>>
    /\ totalFound = 0
    /\ seqSet = {}
    /\ commands = <<>>
    /\ result = <<>>
    /\ fetchErr = ""
    /\ variant \in {"batch", "perMessage"}
    /\ required = <<>>
    /\ msgIdx = 0
    /\ response = {}
    /\ LaterIdle

\* a return that hands back the messages converted so far with the error
Return_KeepsResult(e) ==
    /\ fpc' = "done"
    /\ UNCHANGED result
    /\ fetchErr' = e

\* return nil, err / return nil, nil
Return(e) ==
    /\ fpc' = "done"
    /\ result' = <<>>
    /\ fetchErr' = e

\* step 4 and the issue of the structure fetch (lines 145-208)
WindowAndFetch(nums) ==
    LET w == Window(nums, outputConfig)
    IN IF w.ok
       THEN /\ seqSet' = w.set
            /\ commands' = Append(commands, Command("FETCH structure", w.set))
            /\ fpc' = "structure"
            /\ UNCHANGED <<result, fetchErr>>
       ELSE /\ Return("")
            /\ UNCHANGED <<seqSet, commands>>

\* the search issued although the criteria could not be built
BuildAndSearch_SearchesAnyway ==
    /\ fpc = "start"
    /\ LET r == BuildSearchCriteria(config, outputConfig)
       IN /\ criteria' = r.criteria
          /\ options' = r.options
          /\ err' = r.err
          /\ commands' = Append(commands, Command("SEARCH", {}))
          /\ fpc' = "search"
          /\ UNCHANGED <<result, fetchErr>>
    /\ pc' = "done"
    /\ UNCHANGED <<config, outputConfig, mailboxSize, searchData, seqNums, totalFound, seqSet>>
    /\ UNCHANGED contentVars
    /\ UNCHANGED laterVars

\* lines 30-45: build the criteria and issue the search
BuildAndSearch ==
    /\ fpc = "start"
    /\ LET r == BuildSearchCriteria(config, outputConfig)
       IN /\ criteria' = r.criteria
          /\ options' = r.options
          /\ err' = r.err
          /\ IF r.err # ""
             THEN /\ Return("failed to build search criteria")
                  /\ UNCHANGED commands
             ELSE /\ commands' = Append(commands, Command("SEARCH", {}))
                  /\ fpc' = "search"
                  /\ UNCHANGED <<result, fetchErr>>
    /\ pc' = "done"
    /\ UNCHANGED <<config, outputConfig, mailboxSize, searchData, seqNums, totalFound, seqSet>>
    /\ UNCHANGED contentVars
    /\ UNCHANGED laterVars

\* lines 45-48: the search fails
SearchFails ==
    /\ fpc = "search"
    /\ Return("failed to execute search")
    /\ UNCHANGED compileVars
    /\ UNCHANGED contentVars
    /\ UNCHANGED laterVars
    /\ UNCHANGED <<mailboxSize, searchData, seqNums, totalFound, seqSet, commands>>

\* lines 45-190: the search answers; totalFound, then either the UID-only
\* fetch of the count-only case is issued or the window is computed and the
\* structure fetch is issued
HandleSearchData(data) ==
    LET total == IF data.Count > 0 THEN data.Count ELSE Len(data.All)
    IN /\ searchData' = data
       /\ totalFound' = total
       /\ IF total = 0
          THEN /\ Return("")
               /\ UNCHANGED <<seqNums, seqSet, commands>>
          ELSE IF Len(data.All) = 0
          THEN IF outputConfig.Offset > total
               THEN /\ Return("")
                    /\ UNCHANGED <<seqNums, seqSet, commands>>
               ELSE /\ commands' = Append(commands,
                          Command("FETCH uid", Range(SeqRangeNums(ManualSeqSet(total, outputConfig), mailboxSize))))
                    /\ fpc' = "uidfetch"
                    /\ UNCHANGED <<seqNums, seqSet, result, fetchErr>>
          ELSE /\ seqNums' = data.All
               /\ WindowAndFetch(data.All)

SearchReplies ==
    /\ fpc = "search"
    /\ \E data \in SearchAnswers(mailboxSize) : HandleSearchData(data)
    /\ UNCHANGED compileVars
    /\ UNCHANGED contentVars
    /\ UNCHANGED laterVars
    /\ UNCHANGED mailboxSize

\* lines 124-127: the UID-only fetch fails
UIDFetchFails ==
    /\ fpc = "uidfetch"
    /\ Return("failed to fetch message UIDs")
    /\ UNCHANGED compileVars
    /\ UNCHANGED contentVars
    /\ UNCHANGED laterVars
    /\ UNCHANGED <<mailboxSize, searchData, seqNums, totalFound, seqSet, commands>>

\* lines 124-190: the UID-only fetch answers with the messages of the range in
\* ascending order; their sequence numbers are appended and reversed, then the
\* window is computed and the structure fetch is issued
UIDFetchReplies ==
    /\ fpc = "uidfetch"
    /\ LET uidMessages == SeqRangeNums(ManualSeqSet(totalFound, outputConfig), mailboxSize)
           nums == Reverse(seqNums \o uidMessages)
       IN /\ seqNums' = nums
          /\ WindowAndFetch(nums)
    /\ UNCHANGED compileVars
    /\ UNCHANGED contentVars
    /\ UNCHANGED laterVars
    /\ UNCHANGED <<mailboxSize, searchData, totalFound>>

\* lines 208-211: the structure fetch fails
StructureFetchFails ==
    /\ fpc = "structure"
    /\ Return("failed to fetch messages")
    /\ UNCHANGED compileVars
    /\ UNCHANGED contentVars
    /\ UNCHANGED laterVars
    /\ UNCHANGED <<mailboxSize, searchData, seqNums, totalFound, seqSet, commands>>

\* the messages of the structure response, in the order the server sends them
StructureMessages == Ascending(seqSet \cap 1..mailboxSize)

\* one selected MIME part: its path and what the body structure declares
MimePartMetadata(p) ==
    [Path |-> p,
     Type |-> "text",
     Subtype |-> IF p = <<1>> THEN "plain" ELSE "html",
     Charset |-> "utf-8",
     Filename |-> IF p = <<1>> THEN "" ELSE "body.html"]

\* what determineRequiredBodySections selects for message n: nothing in a
\* mailbox of kind "none", the first part in one of kind "single", and in a
\* "mixed" mailbox nothing, the first part or both parts
BodyStructures == {"none", "single", "mixed"}
RequiredSections(kind, n) ==
    CASE kind = "none" -> <<>>
      [] kind = "single" -> <<MimePartMetadata(<<1>>)>>
      [] OTHER -> IF n % 3 = 0 THEN <<>>
                  ELSE IF n % 3 = 1 THEN <<MimePartMetadata(<<1>>)>>
                  ELSE <<MimePartMetadata(<<1>>), MimePartMetadata(<<2>>)>>

\* the octets the server holds for part p of message n
Body(n, p) == <<n>> \o p
Fragment(n, p) == [SeqNum |-> n, Part |-> p, Content |-> Body(n, p)]

\* the email built from message n, TotalCount left at its zero value
EmailMessage_NoTotalCount(n, mimeParts, total) ==
    [SeqNum |-> n, MimeParts |-> mimeParts, TotalCount |-> 0]

\* the email built from message n, its TotalCount set
EmailMessage(n, mimeParts, total) ==
    [SeqNum |-> n, MimeParts |-> mimeParts, TotalCount |-> total]

MimePart(metadata, content) ==
    [Type |-> metadata.Type,
     Subtype |-> metadata.Subtype,
     Content |-> content,
     Size |-> Len(content),
     Charset |-> metadata.Charset,
     Filename |-> metadata.Filename]

\* lines 230-267 (first pass): the messages without parts are converted at once
RECURSIVE FirstPass(_, _, _, _)
FirstPass(msgs, req, i, total) ==
    IF i > Len(msgs) THEN <<>>
    ELSE IF req[i] = <<>>
    THEN <<EmailMessage(msgs[i], <<>>, total)>> \o FirstPass(msgs, req, i + 1, total)
    ELSE FirstPass(msgs, req, i + 1, total)

\* lines 281-302: the sequence set and the sections of the batch fetch
BatchSeqSet(msgs, req) == {msgs[i] : i \in {j \in 1..Len(msgs) : req[j] # <<>>}}
AllFetchSections(req) ==
    UNION {{req[i][j].Path : j \in 1..Len(req[i])} : i \in 1..Len(req)}

\* the fragments a content fetch of the given messages and sections may bring:
\* all of them, all but one, or all but those of one message
ContentReplies(set, sections) ==
    LET full == {Fragment(n, p) : n \in set, p \in sections}
    IN {full} \cup {full \ {f} : f \in full}
              \cup {{f \in full : f.SeqNum # n} : n \in set}

\* the fragments in the order of the response: message by message, or the
\* fragments of different messages interleaved
Rank(f, interleaved) ==
    IF interleaved THEN f.Part[1] * (MaxMailbox + 1) + f.SeqNum
    ELSE f.SeqNum * (MaxMailbox + 1) + f.Part[1]
RECURSIVE InOrder(_, _)
InOrder(S, interleaved) ==
    IF S = {} THEN <<>>
    ELSE LET f == CHOOSE x \in S : \A y \in S : Rank(x, interleaved) <= Rank(y, interleaved)
         IN <<f>> \o InOrder(S \ {f}, interleaved)

\* fmt.Sprintf("%d:%v", seqNum, path): one key per pair, split again at the
\* first ":" by the third pass
SectionKey(n, p) == <<n, p>>

\* lines 323-358: contentMap, a later fragment of a key replacing an earlier one
ContentMap(frs) ==
    LET key(i) == SectionKey(frs[i].SeqNum, frs[i].Part)
    IN [k \in {key(i) : i \in DOMAIN frs} |->
          frs[CHOOSE i \in DOMAIN frs :
                 key(i) = k /\ \A j \in DOMAIN frs : key(j) = k => j <= i].Content]

\* messageContents with the contents of any message under each path
MessageContents_AnyMessage(contentMap, n) ==
    [p \in {k[2] : k \in DOMAIN contentMap} |->
        contentMap[CHOOSE k \in DOMAIN contentMap : k[2] = p]]

\* lines 375-393: messageContents[n], the contents of message n by path
MessageContents(contentMap, n) ==
    [p \in {k[2] : k \in {x \in DOMAIN contentMap : x[1] = n}} |->
        contentMap[SectionKey(n, p)]]

\* lines 418-442: the MIME parts of a message, a part without content skipped
RECURSIVE MimeParts(_, _, _)
MimeParts(metas, i, msgContent) ==
    IF i > Len(metas) THEN <<>>
    ELSE LET rest == MimeParts(metas, i + 1, msgContent)
         IN IF metas[i].Path \in DOMAIN msgContent
            THEN <<MimePart(metas[i], msgContent[metas[i].Path])>> \o rest
            ELSE rest

\* lines 396-453: one message of messagesToFetch
AssembleMessage(n, metas, contentMap, total) ==
    LET msgContent == MessageContents(contentMap, n)
    IN IF DOMAIN msgContent = {}
       THEN EmailMessage(n, <<>>, total)
       ELSE EmailMessage(n, MimeParts(metas, 1, msgContent), total)

\* lines 396-462 (third pass): the messages with parts, in their order
RECURSIVE ThirdPass(_, _, _, _, _)
ThirdPass(msgs, req, i, contentMap, total) ==
    IF i > Len(msgs) THEN <<>>
    ELSE IF req[i] = <<>>
    THEN ThirdPass(msgs, req, i + 1, contentMap, total)
    ELSE <<AssembleMessage(msgs[i], req[i], contentMap, total)>>
            \o ThirdPass(msgs, req, i + 1, contentMap, total)

\* processor.go lines 273-293: contentMap of one message, keyed by the path
PathContentMap(frs) ==
    [p \in {frs[i].Part : i \in DOMAIN frs} |->
        frs[CHOOSE i \in DOMAIN frs :
               frs[i].Part = p /\ \A j \in DOMAIN frs : frs[j].Part = p => j <= i].Content]

\* processor.go lines 300-314: one MIME part per metadata, the content of a
\* path that is not in the map being empty
MimePartsOfMap(metas, contentMap) ==
    [i \in 1..Len(metas) |->
        MimePart(metas[i], IF metas[i].Path \in DOMAIN contentMap
                           THEN contentMap[metas[i].Path] ELSE <<>>)]

\* processor.go lines 219-334: the loop from message i on, up to the next
\* message that needs a content fetch
NextToFetch(req, i) ==
    IF \E j \in i..Len(req) : req[j] # <<>>
    THEN CHOOSE j \in i..Len(req) : req[j] # <<>> /\ \A k \in i..(j - 1) : req[k] = <<>>
    ELSE Len(req) + 1
PerMessageLoop(msgs, req, i, res) ==
    LET j == NextToFetch(req, i)
        res2 == res \o [k \in 1..(j - i) |-> EmailMessage(msgs[i + k - 1], <<>>, totalFound)]
    IN /\ result' = res2
       /\ msgIdx' = j
       /\ IF j > Len(msgs)
          THEN /\ fpc' = "done"
               /\ fetchErr' = ""
               /\ UNCHANGED commands
          ELSE /\ commands' = Append(commands, Command("FETCH content", {msgs[j]}))
               /\ fpc' = "content"
               /\ UNCHANGED fetchErr

\* lines 219-320: the first pass and the issue of the one content fetch
BatchFetch(msgs, req) ==
    /\ result' = FirstPass(msgs, req, 1, totalFound)
    /\ UNCHANGED msgIdx
    /\ IF BatchSeqSet(msgs, req) = {}
       THEN /\ fpc' = "done"
            /\ fetchErr' = ""
            /\ UNCHANGED commands
       ELSE /\ commands' = Append(commands, Command("FETCH content", BatchSeqSet(msgs, req)))
            /\ fpc' = "content"
            /\ UNCHANGED fetchErr

\* lines 208-320: the structure fetch answers with the messages of the
\* sequence set; the required parts of each are determined
StructureFetchReplies ==
    /\ fpc = "structure"
    /\ \E kind \in BodyStructures :
          LET msgs == StructureMessages
              req == [i \in 1..Len(msgs) |-> RequiredSections(kind, msgs[i])]
          IN /\ required' = req
             /\ IF variant = "batch"
                THEN BatchFetch(msgs, req)
                ELSE PerMessageLoop(msgs, req, 1, <<>>)
    /\ UNCHANGED compileVars
    /\ UNCHANGED laterVars
    /\ UNCHANGED <<mailboxSize, searchData, seqNums, totalFound, seqSet, variant, response>>

\* lines 240-243: determineRequiredBodySections fails
DetermineFails ==
    /\ fpc = "structure"
    /\ StructureMessages # <<>>
    /\ Return("failed to determine required body sections")
    /\ UNCHANGED compileVars
    /\ UNCHANGED contentVars
    /\ UNCHANGED laterVars
    /\ UNCHANGED <<mailboxSize, searchData, seqNums, totalFound, seqSet, commands>>

\* lines 348-363, processor.go lines 268-298: the content fetch fails
ContentFetchErrors ==
    IF variant = "batch"
    THEN {"failed to read body section", "failed to close batch fetch command"}
    ELSE {"failed to fetch message body", "failed to read body section",
          "failed to close fetch command"}
ContentFetchFails ==
    /\ fpc = "content"
    /\ \E e \in ContentFetchErrors : Return(e)
    /\ UNCHANGED compileVars
    /\ UNCHANGED contentVars
    /\ UNCHANGED laterVars
    /\ UNCHANGED <<mailboxSize, searchData, seqNums, totalFound, seqSet, commands>>

\* lines 323-478: the batch fetch answers; the third pass appends the messages
\* with parts.  processor.go lines 268-334: the fetch of one message answers;
\* the message is appended and the loop goes on
ContentFetchReplies ==
    /\ fpc = "content"
    /\ LET msgs == StructureMessages
       IN IF variant = "batch"
          THEN \E reply \in ContentReplies(BatchSeqSet(msgs, required), AllFetchSections(required)) :
               \E interleaved \in BOOLEAN :
                  /\ response' = reply
                  /\ result' = result \o ThirdPass(msgs, required, 1,
                                          ContentMap(InOrder(reply, interleaved)), totalFound)
                  /\ fpc' = "done"
                  /\ fetchErr' = ""
                  /\ UNCHANGED <<msgIdx, commands>>
          ELSE \E reply \in ContentReplies({msgs[msgIdx]}, AllFetchSections(<<required[msgIdx]>>)) :
                  /\ response' = response \cup reply
                  /\ PerMessageLoop(msgs, required, msgIdx + 1,
                        Append(result, EmailMessage(msgs[msgIdx],
                            MimePartsOfMap(required[msgIdx], PathContentMap(InOrder(reply, FALSE))),
                            totalFound)))
    /\ UNCHANGED compileVars
    /\ UNCHANGED laterVars
    /\ UNCHANGED <<mailboxSize, searchData, seqNums, totalFound, seqSet, variant, required>>

NextFetch ==
    \/ BuildAndSearch
    \/ SearchFails
    \/ SearchReplies
    \/ UIDFetchFails
    \/ UIDFetchReplies
    \/ StructureFetchFails
    \/ DetermineFails
    \/ StructureFetchReplies
    \/ ContentFetchFails
    \/ ContentFetchReplies

SpecFetch == InitFetch /\ [][NextFetch]_vars

----
\* Claims about leaves.

\* a message satisfies every field that is set on a leaf (the fields the
\* leaves of the model set: dates, sender, subject, flags)
SatisfiesLeaf(cfg, m) ==
    /\ cfg.Since = "" \/ m.Date >= parseDate(cfg.Since).t
    /\ cfg.Before = "" \/ m.Date < parseDate(cfg.Before).t
    /\ cfg.On = "" \/ m.Date = parseDate(cfg.On).t
    /\ cfg.WithinDays = 0 \/ m.Date >= Today - cfg.WithinDays
    /\ cfg.From = "" \/ m.Hdr["From"] = cfg.From
    /\ cfg.Subject = "" \/ m.Hdr["Subject"] = cfg.Subject
    /\ \A i \in 1..Len(cfg.Flags.Has) : convertToIMAPFlag(cfg.Flags.Has[i]) \in m.Flags
    /\ \A i \in 1..Len(cfg.Flags.NotHas) : convertToIMAPFlag(cfg.Flags.NotHas[i]) \notin m.Flags

\* C18: the query compiled for a leaf matches exactly the messages that
\* satisfy every field set on the leaf; when two or more of since, before, on
\* and within-days are set, each of them is enforced.
C18_LeafFieldsAreAnded ==
    (Unpaged /\ config.Operator = "" /\ err = "")
    => \A m \in Messages : Matches(criteria, m) <=> SatisfiesLeaf(config, m)

\* two names are the same but for the case of their letters
SameButCase(a, b) ==
    /\ Len(a) = Len(b)
    /\ \A i \in 1..Len(a) : ToUpperChar(a[i]) = ToUpperChar(b[i])

\* the IMAP form of a standard name
Canonical(name) ==
    CASE name = Str_seen -> FlagSeen
      [] name = Str_answered -> FlagAnswered
      [] name = Str_flagged -> FlagFlagged
      [] name = Str_deleted -> FlagDeleted
      [] name = Str_draft -> FlagDraft
      [] name = Str_recent -> FlagRecent
      [] name = Str_important -> FlagImportant

\* what the normalization of f has to be
NormalizedFlag(f) ==
    IF Len(f) >= 1 /\ f[1] \in {"\\", "$"} THEN f
    ELSE IF \E name \in StandardNames : SameButCase(f, name)
    THEN Canonical(CHOOSE name \in StandardNames : SameButCase(f, name))
    ELSE f

\* C19: convertToIMAPFlag leaves a name that starts with \ or $ unchanged,
\* turns a name that is, whatever its case, one of seen, answered, flagged,
\* deleted, draft, recent, important into \Seen, \Answered, \Flagged,
\* \Deleted, \Draft, \Recent, $Important, and leaves every other name as
\* written, its case kept.
C19_FlagNormalization ==
    (Unpaged /\ config.Operator = "" /\ config.Flags.set /\ err = "")
    => /\ criteria.Flag = [i \in 1..Len(config.Flags.Has) |-> NormalizedFlag(config.Flags.Has[i])]
       /\ criteria.NotFlag =
             [i \in 1..Len(config.Flags.NotHas) |-> NormalizedFlag(config.Flags.NotHas[i])]

C19_Witness ==
    /\ Unpaged
    /\ config.Flags.Has = <<Str_flagged>>
    /\ config.Flags.NotHas = <<<<"I","m","P","o","r","t","a","n","t">>>>
    /\ criteria.Flag = <<FlagFlagged>>
    /\ criteria.NotFlag = <<FlagImportant>>

\* a string of one or more decimal digits, optionally followed by one of the
\* upper-case letters B, K, M, G; the digits, and the power of 1024 of the unit
SizeNumber(z) ==
    IF Len(z) >= 1 /\ z[Len(z)] \in {"B", "K", "M", "G"} THEN SubSeq(z, 1, Len(z) - 1) ELSE z
WellFormedSize(z) ==
    /\ Len(SizeNumber(z)) >= 1
    /\ \A i \in 1..Len(SizeNumber(z)) : SizeNumber(z)[i] \in Range(Digits)
UnitPower(z) ==
    IF Len(z) = 0 THEN 0
    ELSE CASE z[Len(z)] = "K" -> 1
           [] z[Len(z)] = "M" -> 2
           [] z[Len(z)] = "G" -> 3
           [] OTHER -> 0
\* digits x 1024^k as a natural number
MathSize(z) == NatShift(NatOfDigits(SizeNumber(z)), UnitPower(z))

\* C20: parseSize accepts exactly the strings of one or more decimal digits
\* optionally followed by one of B, K, M, G, and returns for each of them the
\* number digits x 1024^k (k = 0 without unit or with B, 1 for K, 2 for M, 3
\* for G), never negative and never wrapped around; every other string is an
\* error.
C20_ParseSizeExact ==
    (Unpaged /\ config.Operator = "" /\ config.Size.set)
    => LET z == config.Size.LargerThan
           r == parseSize(z)
       IN /\ r.ok <=> WellFormedSize(z)
          /\ r.ok => (~Int64Negative(r.size) /\ NatOfInt64(r.size) = MathSize(z))
          /\ z # <<>> => ((err = "") <=> r.ok)
          /\ (z # <<>> /\ err = "") => criteria.Larger = r.size

----
\* Claims about the window of FetchMessages.

Limit1(n) == IF outputConfig.Limit > 0 /\ outputConfig.Limit < n THEN outputConfig.Limit ELSE n
StructureFetchIssued == \E i \in 1..Len(commands) : commands[i].cmd = "FETCH structure"
StructureFetchSet == (CHOOSE c \in Range(commands) : c.cmd = "FETCH structure").set

\* C6: normal case.  For an ascending list s of n > 0 identifiers, limit L and
\* offset O: if O < n the structure fetch is issued for exactly s[n-1-O] down
\* to s[max(0, n-O-L')] (min(L', n-O) identifiers); if O >= n no fetch is
\* issued and the result is empty without error.
C6_NormalWindow ==
    (fpc \in {"structure", "content", "done"} /\ Len(searchData.All) > 0)
    => LET s == searchData.All
           n == Len(s)
           O == outputConfig.Offset
           lo == IF n - O - Limit1(n) < 0 THEN 0 ELSE n - O - Limit1(n)
       IN IF O < n
          THEN /\ StructureFetchIssued
               /\ seqSet = {s[i + 1] : i \in lo..(n - 1 - O)}
               /\ Cardinality(seqSet) = Min(Limit1(n), n - O)
               /\ SubSeq(commands, 1, 2) = <<Command("SEARCH", {}), Command("FETCH structure", seqSet)>>
          ELSE /\ ~StructureFetchIssued
               /\ fpc = "done" /\ result = <<>> /\ fetchErr = ""

C6_Witness ==
    /\ fpc = "structure"
    /\ searchData.All = <<1, 2, 4, 5>>
    /\ outputConfig.Limit = 2 /\ outputConfig.Offset = 1
    /\ seqSet = {2, 4}

\* C7: count-only case.  When the search returns no identifiers but a count
\* N > 0, then for offset O < N the sequence numbers passed to the structure
\* fetch are exactly max(1, N-O-L'+1) .. N-O.
C7_CountOnlyWindow ==
    (fpc \in {"structure", "content", "done"} /\ Len(searchData.All) = 0 /\ searchData.Count > 0
       /\ outputConfig.Offset < searchData.Count
       /\ fetchErr # "failed to fetch message UIDs")
    => LET N == searchData.Count
           O == outputConfig.Offset
       IN /\ StructureFetchIssued
          /\ seqSet = Max(1, N - O - Limit1(N) + 1)..(N - O)

----
\* Claims about the content fetch of FetchMessages.

ContentFetches == SelectSeq(commands, LAMBDA c : c.cmd = "FETCH content")
StructureAnswered == Len(required) = Len(StructureMessages)
Returned == fpc = "done" /\ fetchErr = ""

\* C11: after the structure fetch there is exactly one content fetch when at
\* least one message needs MIME part content and none when no message does,
\* never one per message; its sequence set holds exactly the messages that
\* need parts.
C11_OneContentFetch ==
    /\ Len(ContentFetches) <= 1
    /\ (Returned /\ StructureAnswered)
       => LET need == BatchSeqSet(StructureMessages, required)
          IN IF need = {}
             THEN ContentFetches = <<>>
             ELSE ContentFetches = <<Command("FETCH content", need)>>

\* the returned message with sequence number n has a part of the declared
\* kind of path p whose content is c
HasPart(n, p, c) ==
    \E i \in DOMAIN result :
       /\ result[i].SeqNum = n
       /\ \E j \in DOMAIN result[i].MimeParts :
             /\ result[i].MimeParts[j].Subtype = MimePartMetadata(p).Subtype
             /\ result[i].MimeParts[j].Content = c
RequiredPaths(n) ==
    UNION {{required[i][j].Path : j \in DOMAIN required[i]} :
              i \in {k \in DOMAIN required : StructureMessages[k] = n}}

\* C12: the content of every MIME part of a returned message is the content
\* of a fragment of the response with that message's sequence number and that
\* part's path, and every fragment of a required part is the content of its
\* own message's part: in any order of the response, with two messages
\* requiring the same path, and with fragments that no message required.
C12_Demultiplexing ==
    (Returned /\ StructureAnswered)
    => /\ \A i \in DOMAIN result : \A j \in DOMAIN result[i].MimeParts :
             LET mp == result[i].MimeParts[j]
             IN mp.Content # <<>>
                => \E f \in response :
                      /\ f.SeqNum = result[i].SeqNum
                      /\ MimePartMetadata(f.Part).Subtype = mp.Subtype
                      /\ f.Content = mp.Content
       /\ \A f \in response :
             f.Part \in RequiredPaths(f.SeqNum) => HasPart(f.SeqNum, f.Part, f.Content)

C12_Witness ==
    /\ Returned
    /\ variant = "batch"
    /\ response = {Fragment(n, p) : n \in {1, 2}, p \in {<<1>>, <<2>>}}
    /\ RequiredPaths(1) = {<<1>>}
    /\ RequiredPaths(2) = {<<1>>, <<2>>}
    /\ HasPart(1, <<1>>, Body(1, <<1>>))
    /\ HasPart(2, <<1>>, Body(2, <<1>>))
    /\ HasPart(2, <<2>>, Body(2, <<2>>))

\* the returned messages with sequence number n
ReturnedFor(n) == {i \in DOMAIN result : result[i].SeqNum = n}

\* C13: when a content fetch that succeeds omits a required fragment, no error
\* is returned and the owning message has one MimePart per required part, in
\* their order, with the declared type, subtype, charset and filename: the
\* part of a fragment received has its content, the part of a missing
\* fragment has the empty content and size 0.
C13_MissingFragmentIsEmptyPart ==
    (Returned /\ StructureAnswered)
    => \A k \in DOMAIN required :
          required[k] # <<>>
          => \A i \in ReturnedFor(StructureMessages[k]) :
                /\ Len(result[i].MimeParts) = Len(required[k])
                /\ \A j \in DOMAIN required[k] :
                      LET f == Fragment(StructureMessages[k], required[k][j].Path)
                      IN result[i].MimeParts[j] =
                            MimePart(required[k][j], IF f \in response THEN f.Content ELSE <<>>)

----
\* Claims about what FetchMessages returns.

\* the command whose failure an error reports
FailedCommand(e) ==
    CASE e = "failed to execute search" -> "SEARCH"
      [] e = "failed to fetch message UIDs" -> "FETCH uid"
      [] e \in {"failed to fetch messages", "failed to determine required body sections"}
           -> "FETCH structure"
      [] OTHER -> "FETCH content"

\* C14: all-or-nothing.  When the search, the UID-only fetch, the structure
\* fetch or the content fetch (reading a fragment and closing the command
\* included) fails, FetchMessages returns the error with no message at all,
\* also when messages without parts were converted before; an error and
\* messages are never returned together.
C14_AllOrNothing ==
    /\ fetchErr # "" => (fpc = "done" /\ result = <<>>)
    /\ (fetchErr # "" /\ fetchErr # "failed to build search criteria")
       => (commands # <<>> /\ commands[Len(commands)].cmd = FailedCommand(fetchErr))

C14_Witness ==
    /\ fpc = "done"
    /\ variant = "batch"
    /\ fetchErr = "failed to close batch fetch command"
    /\ \E k \in DOMAIN required : required[k] = <<>>
    /\ \E k \in DOMAIN required : required[k] # <<>>
    /\ result = <<>>

C16_OnePerIdentifierNewestFirst ==
    (Returned /\ StructureAnswered)
    => /\ Len(result) = Cardinality(seqSet)
       /\ {result[i].SeqNum : i \in DOMAIN result} = seqSet
       /\ \A i \in 1..(Len(result) - 1) : result[i].SeqNum > result[i + 1].SeqNum

----
\* Claims about the order of the session commands.

CommandRank(c) ==
    CASE c.cmd = "SEARCH" -> 1
      [] c.cmd = "FETCH uid" -> 2
      [] c.cmd = "FETCH structure" -> 3
      [] OTHER -> 4
PendingCommand ==
    CASE fpc = "search" -> "SEARCH"
      [] fpc = "uidfetch" -> "FETCH uid"
      [] fpc = "structure" -> "FETCH structure"
      [] fpc = "content" -> "FETCH content"
      [] OTHER -> ""
CommandKinds == [i \in DOMAIN commands |-> commands[i].cmd]

\* the log of commands in every state: search first, then the UID-only fetch
\* (count-only case only), then the structure fetch, then content fetching;
\* the command in flight is the last one issued; nothing is issued when the
\* criteria cannot be built; after a search with zero matches nothing is
\* fetched and the result is empty without error
CommandLogInOrder ==
    /\ commands # <<>> => commands[1].cmd = "SEARCH"
    /\ \A i \in 1..(Len(commands) - 1) :
          \/ CommandRank(commands[i]) < CommandRank(commands[i + 1])
          \/ commands[i].cmd = "FETCH content" /\ commands[i + 1].cmd = "FETCH content"
    /\ (\E i \in DOMAIN commands : commands[i].cmd = "FETCH uid")
       => (searchData.All = <<>> /\ searchData.Count > 0)
    /\ PendingCommand # "" => (commands # <<>> /\ commands[Len(commands)].cmd = PendingCommand)
    /\ err # "" => (commands = <<>> /\ fpc = "done" /\ fetchErr = "failed to build search criteria")
    /\ (fpc = "done" /\ commands # <<>> /\ totalFound = 0 /\ fetchErr # "failed to execute search")
       => (Len(commands) = 1 /\ result = <<>> /\ fetchErr = "")
    /\ Len(commands) > 1 => totalFound > 0

\* a command is issued only by the step that takes the successful answer of
\* the command in flight (or, the search, by the successful compilation)
IssuedAfterSuccess ==
    commands' # commands
    => /\ commands' = Append(commands, commands'[Len(commands')])
       /\ fetchErr = "" /\ fetchErr' = ""
       /\ fpc # "done"
       /\ commands = <<>> => err' = ""

\* C17: the session commands are issued strictly one at a time in the order
\* search, UID-only fetch (count-only case), structure fetch, content fetch,
\* each only after the previous one completed successfully; no command is
\* issued when compiling the criteria fails, and no fetch when the search
\* reports zero matches (the result is then empty, without error).
C17_CommandsInSequence == []CommandLogInOrder /\ [][IssuedAfterSuccess]_vars

C17_Witness ==
    /\ Returned
    /\ variant = "batch"
    /\ CommandKinds = <<"SEARCH", "FETCH uid", "FETCH structure", "FETCH content">>
    /\ result # <<>>

----
\* Claims about SearchConfig.Validate and the compiler.

\* one of the leaf fields of the node is set
HasLeafField(cfg) ==
    [cfg EXCEPT !.Operator = "", !.Conditions = <<>>] # ZeroSearchConfig

\* a node, at any depth, that sets an operator or conditions and a leaf field
RECURSIVE Mixed(_)
Mixed(cfg) ==
    \/ HasLeafField(cfg) /\ (cfg.Operator # "" \/ Len(cfg.Conditions) > 0)
    \/ \E i \in 1..Len(cfg.Conditions) : Mixed(cfg.Conditions[i])

ValidatedAndCompiled == validated /\ pc = "done"

\* C21: a config with a node, at any depth, that sets an operator or
\* conditions together with a leaf field is rejected: Validate or
\* BuildSearchCriteria returns an error.
C21_MixedNodeRejected ==
    (ValidatedAndCompiled /\ Mixed(config)) => (validateErr # "" \/ err # "")

\* C24: a config that Validate accepts compiles, with or without an output
\* config: BuildSearchCriteria returns a non-nil query and a nil error.
C24_ValidCompiles ==
    (ValidatedAndCompiled /\ validateErr = "") => (err = "" /\ ~criteria.nil)

C24_Witness ==
    /\ ValidatedAndCompiled /\ validateErr = "" /\ err = "" /\ ~criteria.nil
    /\ config.Operator = OperatorAnd
    /\ Len(config.Conditions) = 2
    /\ config.Conditions[2].Operator = OperatorNot
    /\ Len(criteria.Not) = 1

----
\* ExecuteActions (actions.go): the actions of a rule on the fetched messages.
\* Every IMAP command is one step, answered by OK or by an error.

\* largest number of messages in the mailbox ExecuteActions works on
MaxStored == 3

\* isStandardFlag
isStandardFlag(flag) ==
    ToLower(flag) \in {Str_seen, Str_answered, Str_flagged, Str_deleted, Str_draft, Str_recent}

\* one element of convertToIMAPFlags
ActionFlag(name) ==
    LET flag == ToLower(name)
    IN CASE flag = Str_seen -> FlagSeen
         [] flag = Str_answered -> FlagAnswered
         [] flag = Str_flagged -> FlagFlagged
         [] flag = Str_deleted -> FlagDeleted
         [] flag = Str_draft -> FlagDraft
         [] OTHER ->
              IF isStandardFlag(flag) /\ ~HasPrefix(flag, "\\")
              THEN IF Len(flag) > 0
                   THEN <<"\\", ToUpperChar(flag[1])>> \o Tail(flag)
                   ELSE flag
              ELSE flag

convertToIMAPFlags(flags) == [i \in 1..Len(flags) |-> ActionFlag(flags[i])]

\* a message of the mailbox; the bytes of its full body section
Stored(uid, flags) == [uid |-> uid, flags |-> flags]
Literal(uid) == <<"message", uid>>

\* var uidSet imap.SeqSet; for each msg: uidSet.AddNum(uint32(msg.UID))
SeqSetOfUIDs(msgs) == [kind |-> "seq", nums |-> {msgs[i].UID : i \in 1..Len(msgs)}]

\* the server's reading of a number set: a SeqSet names sequence numbers, a
\* UIDSet names UIDs; the positions in the mailbox of the messages it names
Addressed(box, numSet) ==
    {i \in 1..Len(box) : IF numSet.kind = "seq" THEN i \in numSet.nums
                         ELSE box[i].uid \in numSet.nums}
AddressedUIDs(box, numSet) == {box[i].uid : i \in Addressed(box, numSet)}

\* the mailbox without the messages at the positions of S
RECURSIVE Without(_, _, _)
Without(box, S, i) ==
    IF i > Len(box) THEN <<>>
    ELSE (IF i \in S THEN <<>> ELSE <<box[i]>>) \o Without(box, S, i + 1)

\* a flag is \Deleted to the server, whatever its case
IsDeletedFlag(f) == SameButCase(f, FlagDeleted)
MarkedDeleted(box) == {i \in 1..Len(box) : \E f \in box[i].flags : IsDeletedFlag(f)}

\* STORE +FLAGS / -FLAGS on the addressed messages
StoreOn(box, numSet, op, flags) ==
    [i \in 1..Len(box) |->
        IF i \in Addressed(box, numSet)
        THEN [box[i] EXCEPT !.flags =
                 IF op = "add" THEN @ \cup Range(flags)
                 ELSE {f \in @ : ~\E g \in Range(flags) : SameButCase(f, g)}]
        ELSE box[i]]

\* a command of ExecuteActions: the function that sent it, the IMAP command,
\* its number set and its argument (flags or target mailbox)
ActionCommand(by, cmd, numSet, arg) == [by |-> by, cmd |-> cmd, numSet |-> numSet, arg |-> arg]
NoSet == [kind |-> "seq", nums |-> {}]

\* the type switch of executeDelete: the kinds of value of the delete setting
DeleteBools == {"true", "false"}
DeleteMaps == {"trash: true", "trash: false", "no trash"}
moveToTrash(deleteConfig) == deleteConfig = "trash: true"

\* ExecuteActions, the blocks after a finished one (lines 33-65)
AfterDelete(a) == IF a.Export.set THEN "export" ELSE "done"
AfterCopy(a) ==
    IF a.MoveTo # "" THEN "move"
    ELSE IF a.Delete # "nil" THEN "delete"
    ELSE AfterDelete(a)
AfterFlags(a) == IF a.CopyTo # "" THEN "copy" ELSE AfterCopy(a)
AfterFlagsAdd(a) == IF Len(a.Flags.Remove) > 0 THEN "flagsRemove" ELSE AfterFlags(a)

\* ExecuteActions that goes on to delete and export after a move
AfterMove_GoesOn(a) == IF a.Delete # "nil" THEN "delete" ELSE AfterDelete(a)

\* after a successful move ExecuteActions returns nil (lines 46-50)
AfterMove(a) == "done"

\* ExecuteActions, lines 18-31, and executeFlags, lines 76-78
Entry(a) ==
    IF a.nil \/ a = ZeroActionConfig THEN "done"
    ELSE IF a.Flags.set /\ Len(a.Flags.Add) > 0 THEN "flagsAdd"
    ELSE IF a.Flags.set /\ Len(a.Flags.Remove) > 0 THEN "flagsRemove"
    ELSE AfterFlags(a)

\* return fmt.Errorf(...)
Abort(e) ==
    /\ actErr' = e
    /\ apc' = "done"

\* ExecuteActions is called
ExecuteActions ==
    /\ apc = "start"
    /\ apc' = Entry(actions)
    /\ UNCHANGED <<mailbox, folders, messages, actions, issued, actErr, exported, exportIdx>>
    /\ UNCHANGED <<compileVars, fetchVars, contentVars, validateVars, unmarshalVars, generateVars>>

\* executeFlags: client.Store(uidSet, {Op: StoreFlagsAdd, Flags: flags})
StoreAdd ==
    /\ apc = "flagsAdd"
    /\ LET uidSet == SeqSetOfUIDs(messages)
           flags == convertToIMAPFlags(actions.Flags.Add)
       IN /\ issued' = Append(issued, ActionCommand("flagsAdd", "STORE +FLAGS", uidSet, flags))
          /\ \/ /\ mailbox' = StoreOn(mailbox, uidSet, "add", flags)
                /\ apc' = AfterFlagsAdd(actions)
                /\ UNCHANGED actErr
             \/ /\ Abort("failed to execute flag actions: failed to add flags")
                /\ UNCHANGED mailbox
    /\ UNCHANGED <<folders, messages, actions, exported, exportIdx>>
    /\ UNCHANGED <<compileVars, fetchVars, contentVars, validateVars, unmarshalVars, generateVars>>

\* executeFlags: client.Store(uidSet, {Op: StoreFlagsDel, Flags: flags})
StoreRemove ==
    /\ apc = "flagsRemove"
    /\ LET uidSet == SeqSetOfUIDs(messages)
           flags == convertToIMAPFlags(actions.Flags.Remove)
       IN /\ issued' = Append(issued, ActionCommand("flagsRemove", "STORE -FLAGS", uidSet, flags))
          /\ \/ /\ mailbox' = StoreOn(mailbox, uidSet, "remove", flags)
                /\ apc' = AfterFlags(actions)
                /\ UNCHANGED actErr
             \/ /\ Abort("failed to execute flag actions: failed to remove flags")
                /\ UNCHANGED mailbox
    /\ UNCHANGED <<folders, messages, actions, exported, exportIdx>>
    /\ UNCHANGED <<compileVars, fetchVars, contentVars, validateVars, unmarshalVars, generateVars>>

\* executeCopy: client.Copy(uidSet, targetMailbox)
Copy ==
    /\ apc = "copy"
    /\ LET uidSet == SeqSetOfUIDs(messages)
       IN /\ issued' = Append(issued, ActionCommand("copy", "COPY", uidSet, actions.CopyTo))
          /\ \/ /\ folders' = [folders EXCEPT ![actions.CopyTo] = @ \cup AddressedUIDs(mailbox, uidSet)]
                /\ apc' = AfterCopy(actions)
                /\ UNCHANGED actErr
             \/ /\ Abort("failed to copy messages")
                /\ UNCHANGED folders
    /\ UNCHANGED <<mailbox, messages, actions, exported, exportIdx>>
    /\ UNCHANGED <<compileVars, fetchVars, contentVars, validateVars, unmarshalVars, generateVars>>

\* the server's MOVE: the addressed messages leave the mailbox for the target
MoveOn(numSet, target) ==
    /\ folders' = [folders EXCEPT ![target] = @ \cup AddressedUIDs(mailbox, numSet)]
    /\ mailbox' = Without(mailbox, Addressed(mailbox, numSet), 1)

\* executeMove: client.Move(uidSet, targetMailbox)
Move ==
    /\ apc = "move"
    /\ LET uidSet == SeqSetOfUIDs(messages)
       IN /\ issued' = Append(issued, ActionCommand("move", "MOVE", uidSet, actions.MoveTo))
          /\ \/ /\ MoveOn(uidSet, actions.MoveTo)
                /\ apc' = AfterMove(actions)
                /\ UNCHANGED actErr
             \/ /\ Abort("failed to move messages")
                /\ UNCHANGED <<mailbox, folders>>
    /\ UNCHANGED <<messages, actions, exported, exportIdx>>
    /\ UNCHANGED <<compileVars, fetchVars, contentVars, validateVars, unmarshalVars, generateVars>>

\* executeDelete up to its first command: the type switch, then either the
\* move to Trash or the store of \Deleted
Delete ==
    /\ apc = "delete"
    /\ LET uidSet == SeqSetOfUIDs(messages)
       IN IF actions.Delete \notin DeleteBools \cup DeleteMaps
          THEN /\ Abort("failed to delete messages: invalid delete configuration type")
               /\ UNCHANGED <<mailbox, folders, issued>>
          ELSE IF moveToTrash(actions.Delete)
          THEN /\ issued' = Append(issued, ActionCommand("delete", "MOVE", uidSet, "Trash"))
               /\ \/ /\ MoveOn(uidSet, "Trash")
                     /\ apc' = AfterDelete(actions)
                     /\ UNCHANGED actErr
                  \/ /\ Abort("failed to delete messages: failed to move messages to Trash")
                     /\ UNCHANGED <<mailbox, folders>>
          ELSE /\ issued' = Append(issued,
                               ActionCommand("delete", "STORE +FLAGS", uidSet, <<FlagDeleted>>))
               /\ \/ /\ mailbox' = StoreOn(mailbox, uidSet, "add", <<FlagDeleted>>)
                     /\ apc' = "expunge"
                     /\ UNCHANGED actErr
                  \/ /\ Abort("failed to delete messages: failed to mark messages as deleted")
                     /\ UNCHANGED mailbox
               /\ UNCHANGED folders
    /\ UNCHANGED <<messages, actions, exported, exportIdx>>
    /\ UNCHANGED <<compileVars, fetchVars, contentVars, validateVars, unmarshalVars, generateVars>>

\* executeDelete: client.Expunge(); the server removes every message that
\* carries \Deleted
Expunge ==
    /\ apc = "expunge"
    /\ issued' = Append(issued, ActionCommand("delete", "EXPUNGE", NoSet, ""))
    /\ \/ /\ mailbox' = Without(mailbox, MarkedDeleted(mailbox), 1)
          /\ apc' = AfterDelete(actions)
          /\ UNCHANGED actErr
       \/ /\ Abort("failed to delete messages: failed to expunge messages")
          /\ UNCHANGED mailbox
    /\ UNCHANGED <<folders, messages, actions, exported, exportIdx>>
    /\ UNCHANGED <<compileVars, fetchVars, contentVars, validateVars, unmarshalVars, generateVars>>

\* executeExport up to its loop: the format check and os.MkdirAll
ExportBegin ==
    /\ apc = "export"
    /\ IF actions.Export.Format \notin {"", "eml", "mbox"}
       THEN /\ Abort("failed to export messages: unsupported export format")
            /\ UNCHANGED exportIdx
       ELSE \/ /\ apc' = IF Len(messages) = 0 THEN "done" ELSE "exportLoop"
               /\ exportIdx' = 1
               /\ UNCHANGED actErr
            \/ /\ Abort("failed to export messages: failed to create export directory")
               /\ UNCHANGED exportIdx
    /\ UNCHANGED <<mailbox, folders, messages, actions, issued, exported>>
    /\ UNCHANGED <<compileVars, fetchVars, contentVars, validateVars, unmarshalVars, generateVars>>

\* the file name and the file of a message
FileName(uid, format) == <<"message", uid, IF format = "" THEN "eml" ELSE format>>
File(name, content) == [name |-> name, content |-> content]

\* executeExport, one turn of the loop: the fetch of the full body of the
\* message and os.WriteFile; a fetch that returns no message skips the message
ExportMessage ==
    /\ apc = "exportLoop"
    /\ LET msg == messages[exportIdx]
           uidSet == SeqSetOfUIDs(<<msg>>)
           fetchedMsgs == AddressedUIDs(mailbox, uidSet)
           goOn == /\ apc' = IF exportIdx = Len(messages) THEN "done" ELSE "exportLoop"
                   /\ exportIdx' = exportIdx + 1
                   /\ UNCHANGED actErr
       IN /\ issued' = Append(issued, ActionCommand("export", "FETCH", uidSet, "BODY.PEEK[]"))
          /\ \/ /\ fetchedMsgs = {}
                /\ goOn
                /\ UNCHANGED exported
             \/ /\ fetchedMsgs # {}
                /\ exported' = exported \cup
                      {File(FileName(msg.UID, actions.Export.Format),
                            Literal(CHOOSE u \in fetchedMsgs : TRUE))}
                /\ goOn
             \/ /\ fetchedMsgs # {}
                /\ Abort("failed to export messages: failed to write message to file")
                /\ UNCHANGED <<exported, exportIdx>>
             \/ /\ Abort("failed to export messages: failed to fetch message for export")
                /\ UNCHANGED <<exported, exportIdx>>
    /\ UNCHANGED <<mailbox, folders, messages, actions>>
    /\ UNCHANGED <<compileVars, fetchVars, contentVars, validateVars, unmarshalVars, generateVars>>

\* Inputs of ExecuteActions.

\* mailboxes: up to MaxStored messages with ascending UIDs, which are the
\* sequence numbers in some mailboxes and not in others, with one message
\* that may carry \Deleted already
StoredUIDs == 1..(MaxStored + 1)
UIDLists == {Ascending(S) : S \in {T \in SUBSET StoredUIDs : Cardinality(T) <= MaxStored}}
Mailboxes ==
    {[i \in 1..Len(us) |-> Stored(us[i], IF us[i] = d THEN {FlagDeleted} ELSE {})] :
        us \in UIDLists, d \in {0, MaxStored}}

\* the fetch results of a mailbox: any of its messages, in mailbox order
ResultsOf(box) ==
    {[i \in 1..Len(us) |-> [UID |-> us[i]]] :
        us \in {Ascending(S) : S \in SUBSET {box[i].uid : i \in 1..Len(box)}}}

FlagActionsInputs ==
    {ZeroFlagActions,
     [set |-> TRUE, Add |-> <<>>, Remove |-> <<>>],
     [set |-> TRUE, Add |-> <<Str_seen>>, Remove |-> <<>>],
     [set |-> TRUE, Add |-> <<<<"I","m","p","o","r","t","a","n","t">>, Str_recent>>,
                    Remove |-> <<Str_deleted>>],
     [set |-> TRUE, Add |-> <<>>, Remove |-> <<FlagSeen, <<"C","u","s","t","o","m">>>>]}
DeleteInputs == {"nil", "true", "false", "trash: true", "trash: false", "string"}
ExportInputs == {ZeroExport, [set |-> TRUE, Format |-> ""], [set |-> TRUE, Format |-> "pdf"]}
ActionConfigs ==
    {NilActionConfig} \cup
    {[nil |-> FALSE, Flags |-> f, MoveTo |-> m, CopyTo |-> c, Delete |-> d, Export |-> e] :
        f \in FlagActionsInputs, m \in {"", "Archive"}, c \in {"", "Archive"},
        d \in DeleteInputs, e \in ExportInputs}

CompileIdle ==
    /\ config = ZeroSearchConfig
    /\ outputConfig = NilOutputConfig
    /\ criteria = NilCriteria
    /\ options = NilOptions
    /\ err = ""
    /\ pc = "idle"

InitActions ==
    /\ CompileIdle
    /\ FetchIdle
    /\ ValidateIdle
    /\ UnmarshalIdle
    /\ GenerateIdle
    /\ mailbox \in Mailboxes
    /\ messages \in ResultsOf(mailbox)
    /\ actions \in ActionConfigs
    /\ folders = NoFolders
    /\ apc = "start"
    /\ issued = <<>>
    /\ actErr = ""
    /\ exported = {}
    /\ exportIdx = 0

NextActions ==
    \/ ExecuteActions
    \/ StoreAdd
    \/ StoreRemove
    \/ Copy
    \/ Move
    \/ Delete
    \/ Expunge
    \/ ExportBegin
    \/ ExportMessage

SpecActions == InitActions /\ [][NextActions]_vars

----
\* OutputConfig.UnmarshalYAML (part_002): the output block of a rule file.

\* a complex field of the fields list: a mapping with one key (body,
\* mime_parts or another) over a mapping with type, mode and max_length
YField(key, type, mode, maxLength) ==
    [kind |-> "map", str |-> key, type |-> type, mode |-> mode, max_length |-> maxLength]
\* a simple field: a string
YName(name) == [kind |-> "string", str |-> name, type |-> Absent, mode |-> Absent, max_length |-> Absent]

\* if v, ok := contentMap[key].(string); ok / .(int); ok
StringOr(v, default) == IF v.set /\ v.kind = "string" THEN v.str ELSE default
IntOr(v, default) == IF v.set /\ v.kind = "int" THEN v.int ELSE default

\* Field and ContentField
ContentField(showContent, showTypes, type, mode, maxLength) ==
    [nil |-> FALSE, ShowContent |-> showContent, ShowTypes |-> showTypes,
     Type |-> type, Mode |-> mode, MaxLength |-> maxLength]
NilContent == [ContentField(FALSE, FALSE, "", "", 0) EXCEPT !.nil = TRUE]
Field(name, content) == [raw |-> FALSE, Name |-> name, Content |-> content]
\* a field stored as decoded ("just store as is")
RawField(f) == [raw |-> TRUE, Name |-> f.str, Content |-> NilContent]

\* the switch on the type of one element of temp.Fields (lines 271-325)
ConvertField(f) ==
    IF f.kind = "string" THEN Field(f.str, NilContent)
    ELSE IF f.str = "body"
    THEN Field("body", ContentField(TRUE, FALSE, StringOr(f.type, ""), "", IntOr(f.max_length, 0)))
    ELSE IF f.str = "mime_parts"
    THEN Field("mime_parts", ContentField(FALSE, TRUE, StringOr(f.type, ""),
                                          StringOr(f.mode, ""), IntOr(f.max_length, 0)))
    ELSE RawField(f)

\* unmarshal(&temp): the decoding of the mapping into tempOutputConfig, which
\* has the fields Format, Limit and Fields only; a scalar of the wrong type
\* under one of these keys is an error, other keys are not looked at
DecodeTemp(doc) ==
    IF doc.limit.set /\ doc.limit.kind # "int"
    THEN [err |-> "cannot unmarshal into int", Format |-> "", Limit |-> 0, Fields |-> <<>>]
    ELSE [err |-> "",
          Format |-> StringOr(doc.format, ""),
          Limit |-> IntOr(doc.limit, 0),
          Fields |-> doc.fields]

\* the body of UnmarshalYAML on receiver o
UnmarshalInto(o, doc) ==
    LET temp == DecodeTemp(doc)
    IN IF temp.err # "" THEN [err |-> temp.err, o |-> o]
       ELSE [err |-> "",
             o |-> [o EXCEPT !.Format = temp.Format,
                             !.Limit = temp.Limit,
                             !.Fields = [i \in 1..Len(temp.Fields) |-> ConvertField(temp.Fields[i])]]]

\* err := o.UnmarshalYAML(unmarshal)
UnmarshalYAML ==
    /\ upc = "start"
    /\ LET r == UnmarshalInto(output, document)
       IN /\ output' = r.o
          /\ unmarshalErr' = r.err
    /\ upc' = "done"
    /\ UNCHANGED document
    /\ UNCHANGED <<compileVars, fetchVars, contentVars, validateVars, actionVars, generateVars>>

\* output blocks: each pagination key absent or given, a limit of the wrong type
FieldLists ==
    {<<>>, <<YName("subject")>>,
     <<YName("from"), YField("body", YStr("text/plain"), Absent, YInt(100))>>,
     <<YField("mime_parts", Absent, YStr("filter"), Absent), YField("attachments", Absent, Absent, Absent)>>}
Documents ==
    {[format |-> f, limit |-> l, offset |-> o, after_uid |-> a, before_uid |-> b, fields |-> fs] :
        f \in {Absent, YStr("json")},
        l \in {Absent, YStr("ten")} \cup {YInt(n) : n \in 0..MaxLimit},
        o \in {Absent} \cup {YInt(n) : n \in 0..MaxOffset},
        a \in {Absent, YInt(0), YInt(1)},
        b \in {Absent, YInt(UIDMod - 1)},
        fs \in FieldLists}

InitUnmarshal ==
    /\ CompileIdle
    /\ FetchIdle
    /\ ValidateIdle
    /\ ActionsIdle
    /\ GenerateIdle
    /\ document \in Documents
    /\ output = ZeroOutput
    /\ unmarshalErr = ""
    /\ upc = "start"

NextUnmarshal == UnmarshalYAML

SpecUnmarshal == InitUnmarshal /\ [][NextUnmarshal]_vars

----
\* MailGenerator.Generate (mailgen.go) and TemplateConfig.Validate.

\* largest count of a generate entry, number of variations of a rule and
\* number of generate entries
MaxCount == 3
MaxVariations == 2
MaxEntries == 2

\* RuleConfig with its name in the Rules map; GenerateConfig
RuleConfig(name, template, variations) ==
    [name |-> name, Template |-> template, Variations |-> variations]
GenerateConfig(rule, count) == [Rule |-> rule, Count |-> count]

\* tc.Rules[name], defined or not
RuleNames(tc) == {r.name : r \in tc.Rules}
RuleOf(tc, name) == CHOOSE r \in tc.Rules : r.name = name

\* TemplateConfig.Validate: "" is a nil error.  A variation is the value of
\* its one key; the empty value is <<>>
ValidateTemplateConfig(tc) ==
    IF ~tc.Variables THEN "invalid variables"
    ELSE IF tc.Templates = {} THEN "no templates defined"
    ELSE IF tc.Rules = {} THEN "no rules defined"
    ELSE IF Len(tc.Generate) = 0 THEN "no generate section defined"
    ELSE IF \E r \in tc.Rules : r.Template \notin tc.Templates
    THEN "rule refers to undefined template"
    ELSE IF \E r \in tc.Rules : \E i \in 1..Len(r.Variations) : r.Variations[i] = <<>>
    THEN "rule variation has empty value"
    ELSE IF \E i \in 1..Len(tc.Generate) : tc.Generate[i].Rule \notin RuleNames(tc)
    THEN "generate entry refers to undefined rule"
    ELSE IF \E i \in 1..Len(tc.Generate) : tc.Generate[i].Count <= 0
    THEN "generate entry has invalid count"
    ELSE ""

\* the email processEmailTemplate renders from the template of the rule, the
\* processed variation and the index
Email(rule, variation, index) ==
    [Rule |-> rule.name, Template |-> rule.Template, Variation |-> variation, Index |-> index]

\* if err := g.config.Validate(); err != nil { return nil, ... }
GenerateBegin ==
    /\ gpc = "start"
    /\ IF ValidateTemplateConfig(templateConfig) # ""
       THEN /\ genErr' = "invalid configuration"
            /\ gpc' = "done"
            /\ UNCHANGED <<genEntry, genIndex>>
       ELSE /\ gpc' = "loop"
            /\ genEntry' = 1
            /\ genIndex' = 0
            /\ UNCHANGED genErr
    /\ UNCHANGED <<templateConfig, emails>>
    /\ UNCHANGED <<compileVars, fetchVars, contentVars, validateVars, actionVars, unmarshalVars>>

\* one turn of the inner loop of Generate (lines 44-89) and the loop headers
\* that follow it; i % len(rule.Variations) with no variations is a run-time
\* panic (integer divide by zero)
GenerateEmail ==
    /\ gpc = "loop"
    /\ LET genConfig == templateConfig.Generate[genEntry]
           rule == RuleOf(templateConfig, genConfig.Rule)
       IN IF Len(rule.Variations) = 0
          THEN /\ gpc' = "panic"
               /\ UNCHANGED <<emails, genErr, genEntry, genIndex>>
          ELSE IF rule.Template \in templateConfig.Broken
          THEN /\ genErr' = "failed to process template"
               /\ emails' = <<>>
               /\ gpc' = "done"
               /\ UNCHANGED <<genEntry, genIndex>>
          ELSE LET variationIndex == genIndex % Len(rule.Variations)
                   variation == rule.Variations[variationIndex + 1]
               IN /\ emails' = Append(emails, Email(rule, variation, genIndex))
                  /\ IF genIndex + 1 < genConfig.Count
                     THEN /\ genIndex' = genIndex + 1
                          /\ UNCHANGED <<genEntry, gpc>>
                     ELSE IF genEntry < Len(templateConfig.Generate)
                     THEN /\ genEntry' = genEntry + 1
                          /\ genIndex' = 0
                          /\ UNCHANGED gpc
                     ELSE /\ gpc' = "done"
                          /\ UNCHANGED <<genEntry, genIndex>>
                  /\ UNCHANGED genErr
    /\ UNCHANGED templateConfig
    /\ UNCHANGED <<compileVars, fetchVars, contentVars, validateVars, actionVars, unmarshalVars>>

\* Inputs of Generate: a rule "welcome" with 0..MaxVariations variations, one
\* of which may have an empty value, over a defined or an undefined
\* template; a rule "digest" with one variation; generate entries over these
\* rules and an undefined one
VariationLists ==
    {[k \in 1..n |-> IF k = bad THEN <<>> ELSE <<"value", k>>] :
        n \in 0..MaxVariations, bad \in {0, 1}}
RuleSets ==
    {{}} \cup {{RuleConfig("welcome", "missing", <<<<"value", 1>>>>)}}
         \cup {{RuleConfig("welcome", "letter", vs), RuleConfig("digest", "letter", <<<<"value", 1>>>>)} :
                 vs \in VariationLists}
GenerateEntries ==
    {GenerateConfig("welcome", c) : c \in 0..MaxCount}
        \cup {GenerateConfig("digest", 1), GenerateConfig("undefined", 1)}
TemplateConfigs ==
    {[Variables |-> v, Templates |-> ts, Broken |-> b, Rules |-> rs, Generate |-> gs] :
        v \in BOOLEAN, ts \in {{}, {"letter"}}, b \in {{}, {"letter"}}, rs \in RuleSets,
        gs \in SeqsOf(GenerateEntries, 0, MaxEntries)}

InitGenerate ==
    /\ CompileIdle
    /\ FetchIdle
    /\ ValidateIdle
    /\ ActionsIdle
    /\ UnmarshalIdle
    /\ templateConfig \in TemplateConfigs
    /\ emails = <<>>
    /\ genErr = ""
    /\ gpc = "start"
    /\ genEntry = 0
    /\ genIndex = 0

NextGenerate ==
    \/ GenerateBegin
    \/ GenerateEmail

SpecGenerate == InitGenerate /\ [][NextGenerate]_vars

----
\* Claims about ExecuteActions.

ResultUIDs == {messages[i].UID : i \in 1..Len(messages)}
MailboxUIDs(box) == {box[i].uid : i \in 1..Len(box)}
UIDsDiffer == \E i \in 1..Len(mailbox) : mailbox[i].uid # i

\* a step of ExecuteActions sends a command; the command it sends
Sends == Len(issued') = Len(issued) + 1
Sent == issued'[Len(issued')]

\* C22: in a mailbox whose UIDs differ from the sequence numbers, every
\* flag, copy, move and delete command that names messages affects exactly
\* the messages of the fetch result.
C22_CommandsAddressResult ==
    [][(Sends /\ Sent.by \in {"flagsAdd", "flagsRemove", "copy", "move", "delete"}
          /\ Sent.cmd # "EXPUNGE" /\ UIDsDiffer)
       => AddressedUIDs(mailbox, Sent.numSet) = ResultUIDs]_vars

\* the rank of the functions of ExecuteActions in its fixed order
StageRank(by) ==
    CASE by = "flagsAdd" -> 1
      [] by = "flagsRemove" -> 2
      [] by = "copy" -> 3
      [] by = "move" -> 4
      [] by = "delete" -> 5
      [] by = "export" -> 6

\* the functions the action config asks for
Asked(a) ==
    IF a.nil THEN {}
    ELSE (IF a.Flags.set /\ Len(a.Flags.Add) > 0 THEN {"flagsAdd"} ELSE {})
         \cup (IF a.Flags.set /\ Len(a.Flags.Remove) > 0 THEN {"flagsRemove"} ELSE {})
         \cup (IF a.CopyTo # "" THEN {"copy"} ELSE {})
         \cup (IF a.MoveTo # "" THEN {"move"} ELSE {})
         \cup (IF a.Delete # "nil" THEN {"delete"} ELSE {})
         \cup (IF a.Export.set THEN {"export"} ELSE {})

IssuedBy == {issued[i].by : i \in 1..Len(issued)}

\* the commands were sent in the fixed order, each function only after every
\* function asked for before it, no function that was not asked for, a store
\* of \Deleted before its expunge, and nothing by delete after a move
ActionsInOrder ==
    /\ \A i \in 1..Len(issued) : \A j \in 1..Len(issued) :
          i < j => /\ StageRank(issued[i].by) <= StageRank(issued[j].by)
                   /\ issued[i].by = issued[j].by
                        => \/ issued[i].by = "export"
                           \/ issued[i].cmd = "STORE +FLAGS" /\ issued[j].cmd = "EXPUNGE"
    /\ IssuedBy \subseteq Asked(actions)
    /\ \A by \in IssuedBy : \A earlier \in Asked(actions) :
          (StageRank(earlier) < StageRank(by) /\ earlier # "move") => earlier \in IssuedBy
    /\ "move" \in IssuedBy => IssuedBy \cap {"delete", "export"} = {}
    /\ actErr # "" => apc = "done"

\* a command is sent only while no error has occurred; a step that fails
\* leaves the mailboxes and the files as the earlier steps made them
StopsAtFirstFailure ==
    /\ actErr # "" => UNCHANGED <<issued, mailbox, folders, exported>>
    /\ (actErr = "" /\ actErr' # "") => UNCHANGED <<mailbox, folders, exported>>

\* C23: ExecuteActions runs the configured actions in the order flags (add
\* before remove), copy, move, delete, export; an action starts only after
\* every earlier configured action succeeded; the first failure ends the run
\* with an error, nothing is sent after it and nothing is rolled back; after a
\* successful move delete is never executed.
C23_ActionsInSequence == []ActionsInOrder /\ [][StopsAtFirstFailure]_vars

C23_Witness ==
    /\ apc = "done" /\ actErr = ""
    /\ [i \in 1..Len(issued) |-> issued[i].by]
          = <<"flagsAdd", "flagsRemove", "copy", "delete", "delete", "export">>
    /\ Len(mailbox) = 2

\* C25: with delete: false nothing is deleted: executeDelete sends no store
\* of \Deleted, no expunge and no move to Trash.
C25_DeleteFalseDeletesNothing ==
    actions.Delete = "false" => "delete" \notin IssuedBy

\* C26: a permanent delete leaves every message that is not in the fetch
\* result in the mailbox, and after the expunge the mailbox has lost exactly
\* the messages of the result.
C26_DeleteRemovesOnlyResult ==
    [][(apc \in {"delete", "expunge"} /\ ~moveToTrash(actions.Delete))
       => /\ MailboxUIDs(mailbox) \ ResultUIDs \subseteq MailboxUIDs(mailbox')
          /\ (apc = "expunge" /\ actErr' = "")
                => MailboxUIDs(mailbox') = MailboxUIDs(mailbox) \ ResultUIDs]_vars

\* C27: when export is configured and the run ends without error, the
\* content of every message of the result has been written to its file, also
\* when move_to or delete is set.
C27_ExportWritesEveryMessage ==
    (apc = "done" /\ actErr = "" /\ ~actions.nil /\ actions.Export.set)
    => \A i \in 1..Len(messages) :
          File(FileName(messages[i].UID, actions.Export.Format), Literal(messages[i].UID))
             \in exported

\* C28: the flags sent by flags.add and flags.remove for a name isValidFlag
\* accepts are, but for the case of letters, the flags the search compiler
\* produces for the same name.
C28_FlagNormalizersAgree ==
    \A i \in 1..Len(issued) :
       issued[i].by \in {"flagsAdd", "flagsRemove"}
       => LET names == IF issued[i].by = "flagsAdd" THEN actions.Flags.Add
                       ELSE actions.Flags.Remove
          IN \A k \in 1..Len(names) :
                isValidFlag(names[k]) => SameButCase(issued[i].arg[k], convertToIMAPFlag(names[k]))

----
\* Claims about OutputConfig.UnmarshalYAML.

\* C29: after UnmarshalYAML, Limit, Offset, AfterUID and BeforeUID are the
\* values given under limit, offset, after_uid and before_uid, 0 when absent.
C29_PaginationPreserved ==
    (upc = "done" /\ unmarshalErr = "")
    => /\ output.Limit = IntOr(document.limit, 0)
       /\ output.Offset = IntOr(document.offset, 0)
       /\ output.AfterUID = IntOr(document.after_uid, 0)
       /\ output.BeforeUID = IntOr(document.before_uid, 0)

----
\* Claims about MailGenerator.Generate.

\* the emails of the generate entries from entry k on
RECURSIVE ExpectedEmails(_, _)
ExpectedEmails(tc, k) ==
    IF k > Len(tc.Generate) THEN <<>>
    ELSE LET rule == RuleOf(tc, tc.Generate[k].Rule)
             n == Len(rule.Variations)
         IN [j \in 1..tc.Generate[k].Count |->
                Email(rule, rule.Variations[((j - 1) % n) + 1], j - 1)]
            \o ExpectedEmails(tc, k + 1)

\* C30: on a config that Validate accepts and whose templates render,
\* Generate ends without a run-time fault and returns, in the order of the
\* generate entries, count emails per entry, the i-th built from variation
\* i mod (number of variations) with index i.
C30_GenerateReturnsAllEmails ==
    (ValidateTemplateConfig(templateConfig) = "" /\ templateConfig.Broken = {} /\ gpc # "idle")
    => /\ gpc # "panic"
       /\ gpc = "done" => (genErr = "" /\ emails = ExpectedEmails(templateConfig, 1))

====
